---- MODULE Spec2Model ----
(***************************************************************************)
(* Model of the two computations of src/app02.py that carry a contract:    *)
(*   build_relative_table  (group means over the overall mean)             *)
(*   compute_strategy      (territory x cluster strategy descriptor)       *)
(* and of the script around them: data source, validations, sidebar        *)
(* filters, KPIs and pages, one run after another.                         *)
(*                                                                         *)
(* Conventions                                                             *)
(*  - A DataFrame is a sequence of rows; a row maps column names to cells. *)
(*  - A cell is a record [k, n, s]: k = "null" (None/NaN), "num" (the      *)
(*    number n) or "str" (the text s, a sequence of one-character          *)
(*    strings, so that parsing it is a computation).                       *)
(*  - A float64 is a record [k, n, d]: k = "nan", "inf", "ninf" or "fin"   *)
(*    (the rational n/d in lowest terms, d > 0).  Rounding of float64 is   *)
(*    not modelled: means and ratios are exact rationals.                  *)
(*  - A Python exception is the value Raised, which propagates through     *)
(*    every operator that receives it.                                     *)
(*  - The en dash of some source strings is written "-" (the parser takes  *)
(*    Latin-1 only); no two source strings become equal by this.           *)
(***************************************************************************)
EXTENDS Integers, Sequences, FiniteSets, TLC

VARIABLES
    df,          \* the caller's table handed to build_relative_table
    group_col,   \* argument group_col
    value_cols,  \* argument value_cols
    rel,         \* what the call returned: NoCall, Raised or a table
    baseline,    \* the local `baseline` of the last call (column -> float64)
    grp,         \* the local `grp` of the last call (the group means)
    pc,          \* "start" before the call, "done" after it, "again" after a second call
    rel_again,   \* what a second call with the same arguments returned
    CLUSTER_ACTIONS,  \* the module-level dict CLUSTER_ACTIONS
    territorio_int,   \* argument territorio_int of compute_strategy
    cluster_int,      \* argument cluster_int of compute_strategy
    strat,            \* what compute_strategy returned: NoStrat, StratRaised or a dict
    pcs,              \* "start" before the call of compute_strategy, "done" after
    calls,            \* how many calls of compute_strategy have returned
    caller_appends,   \* how many strings the caller appended to the returned lists
    dedup_in,         \* base["acoes_reforcadas"] before the deduplication
    dedup_out,        \* base["acoes_reforcadas"] after it
    pcd,              \* "start" before the deduplication, "done" after
    on_disk,          \* which of the default workbooks exist: clientes, setores, ibge
    xlsx_clientes,    \* the workbook dashboard_clientes.xlsx, on disk or uploaded
    xlsx_setores,     \* the workbook dashboard_setores.xlsx, on disk or uploaded
    use_upload,       \* the checkbox "Usar upload de arquivos"
    uploaded,         \* which workbooks the upload widgets hold
    runs,             \* how many runs of the script the session has started
    last_rel_terr,    \* the territorial heatmap table of an earlier run
    pca,              \* where the run is: start, loaded, validated, prepared,
                      \* filtered, kpis, end, stopped (st.stop) or raised
    error_shown,      \* the st.error message of this run, "" when none
    reached,          \* what this run has reached of: filters, kpis, page,
                      \* build_relative_table, compute_strategy
    df_clientes,
    df_setores,
    page,
    sel_territorio,
    sel_cluster,
    sel_tarifa_social,
    sel_tipo_imovel,
    df_f,
    df_setores_f,
    kpis,
    df_rel_terr,      \* as build_relative_table returned it (line 453)
    df_rel_cli,       \* as build_relative_table returned it (line 509)
    cluster_opts,
    terr_opts,
    cluster_pick,
    terr_pick

relVars == <<df, group_col, value_cols, rel, baseline, grp, pc, rel_again>>

stratVars ==
    <<CLUSTER_ACTIONS, territorio_int, cluster_int, strat, pcs, calls, caller_appends>>

dedupVars == <<dedup_in, dedup_out, pcd>>

envVars ==
    <<on_disk, xlsx_clientes, xlsx_setores, use_upload, uploaded, runs, last_rel_terr>>

sidebarVars ==
    <<page, sel_territorio, sel_cluster, sel_tarifa_social, sel_tipo_imovel,
      df_f, df_setores_f>>

resultVars ==
    <<kpis, df_rel_terr, df_rel_cli, cluster_opts, terr_opts, cluster_pick, terr_pick>>

appVars ==
    <<envVars, pca, error_shown, reached, df_clientes, df_setores, sidebarVars,
      resultVars>>

vars == <<relVars, stratVars, dedupVars, appVars>>

---------------------------------------------------------------------------
(* Bounds *)

MaxRows == 2

\* compute_strategy is called with territorio_int in -1..MaxTerritorio or 99
\* and cluster_int in -1..MaxCluster or 99.
MaxTerritorio == 3

MaxCluster == 9

\* The deduplication is applied to lists of at most MaxActions strings.
MaxActions == 4

\* A run makes at most MaxCalls calls of compute_strategy, and the caller
\* appends at most MaxCallerAppends strings to the lists of a descriptor.
MaxCalls == 2

MaxCallerAppends == 1

\* A session runs the script at most MaxRuns times.
MaxRuns == 3

---------------------------------------------------------------------------
(* Cells and float64 values *)

Null == [k |-> "null", n |-> 0, s |-> <<>>]

Num(x) == [k |-> "num", n |-> x, s |-> <<>>]

Str(t) == [k |-> "str", n |-> 0, s |-> t]

NaN == [k |-> "nan", n |-> 0, d |-> 1]

PosInf == [k |-> "inf", n |-> 0, d |-> 1]

NegInf == [k |-> "ninf", n |-> 0, d |-> 1]

\* A raised exception, as a cell value.
Raised == [k |-> "raised", n |-> 0, d |-> 1]

Abs(x) == IF x < 0 THEN -x ELSE x

RECURSIVE Gcd(_, _)
Gcd(x, y) == IF y = 0 THEN x ELSE Gcd(y, x % y)

\* The float64 n/d (d # 0), in lowest terms with a positive denominator.
Fin(x, y) ==
    LET g == Gcd(Abs(x), Abs(y))
        sgn == IF y < 0 THEN -1 ELSE 1
    IN  [k |-> "fin", n |-> sgn * (x \div g), d |-> sgn * (y \div g)]

IsFin(v) == v.k = "fin"

IsZero(v) == v.k = "fin" /\ v.n = 0

\* IEEE-754 division as numpy performs it (no exception, no warning raised):
\* nan operands give nan, x/0 is nan for x = 0 and a signed infinity otherwise.
FloatDiv(x, y) ==
    IF x.k = "nan" \/ y.k = "nan" THEN NaN
    ELSE IF ~IsFin(x) \/ ~IsFin(y) THEN NaN
    ELSE IF y.n = 0
         THEN IF x.n = 0 THEN NaN ELSE IF x.n > 0 THEN PosInf ELSE NegInf
    ELSE Fin(x.n * y.d, x.d * y.n)

---------------------------------------------------------------------------
(* pd.to_numeric(series, errors="coerce"), cell by cell *)

Digits == {"0", "1", "2", "3", "4", "5", "6", "7", "8", "9"}

DigitVal(c) ==
    CASE c = "0" -> 0 [] c = "1" -> 1 [] c = "2" -> 2 [] c = "3" -> 3
      [] c = "4" -> 4 [] c = "5" -> 5 [] c = "6" -> 6 [] c = "7" -> 7
      [] c = "8" -> 8 [] c = "9" -> 9

RECURSIVE DigitsVal(_)
DigitsVal(t) ==
    IF t = <<>> THEN 0
    ELSE 10 * DigitsVal(SubSeq(t, 1, Len(t) - 1)) + DigitVal(t[Len(t)])

AllDigits(t) == Len(t) > 0 /\ \A i \in 1..Len(t) : t[i] \in Digits

\* Whether the text is a decimal integer literal, optionally signed.
IsNumericText(t) ==
    \/ AllDigits(t)
    \/ Len(t) > 1 /\ t[1] = "-" /\ AllDigits(Tail(t))

ParseText(t) == IF t[1] = "-" THEN -DigitsVal(Tail(t)) ELSE DigitsVal(t)

\* errors="raise": text that is not a number raises ValueError.
to_numeric_raise(c) ==
    CASE c.k = "null" -> NaN
      [] c.k = "num"  -> Fin(c.n, 1)
      [] c.k = "str"  -> IF IsNumericText(c.s) THEN Fin(ParseText(c.s), 1)
                         ELSE Raised
      [] OTHER        -> c

\* errors="coerce": text that is not a number (the empty text included)
\* becomes NaN, the text "inf" reads as the infinity; a cell that is a
\* float64 already stays as it is.
to_numeric(c) ==
    CASE c.k = "null" -> NaN
      [] c.k = "num"  -> Fin(c.n, 1)
      [] c.k = "str"  -> IF IsNumericText(c.s) THEN Fin(ParseText(c.s), 1)
                         ELSE IF c.s = <<"i", "n", "f">> THEN PosInf
                         ELSE NaN
      [] OTHER        -> c

---------------------------------------------------------------------------
(* build_relative_table *)

Rows(t) == 1..Len(t)

\* tmp = df.copy(): a new table with the same cells.
copy_df(t) == [i \in Rows(t) |-> t[i]]

\* tmp[c] = pd.to_numeric(tmp[c], errors="coerce")
coerce_column(t, c) ==
    [i \in Rows(t) |-> [t[i] EXCEPT ![c] = to_numeric(t[i][c])]]

RECURSIVE coerce_columns(_, _)
coerce_columns(t, cols) ==
    IF cols = <<>> THEN t
    ELSE coerce_columns(coerce_column(t, Head(cols)), Tail(cols))

FloatAdd(x, y) == Fin(x.n * y.d + y.n * x.d, x.d * y.d)

FloatLess(x, y) == x.n * y.d < y.n * x.d

RECURSIVE SumOver(_, _, _)
SumOver(t, c, I) ==
    IF I = {} THEN Fin(0, 1)
    ELSE LET i == CHOOSE j \in I : TRUE
         IN  FloatAdd(t[i][c], SumOver(t, c, I \ {i}))

\* Series.mean() with skipna: the mean of the non-NaN values of column c over
\* the rows I of t, NaN when there is none.
MeanOfRows(t, c, I) ==
    LET present == {i \in I : IsFin(t[i][c])}
    IN  IF present = {} THEN NaN
        ELSE FloatDiv(SumOver(t, c, present), Fin(Cardinality(present), 1))

\* Mutant: the mean taken over the rows that fall in some group only.
frame_mean_grouped_rows(t, g, cols) ==
    [c \in {cols[j] : j \in 1..Len(cols)} |->
        MeanOfRows(t, c, {i \in Rows(t) : IsFin(t[i][g])})]

\* baseline = tmp[value_cols].mean(numeric_only=True): one mean per column,
\* over every row of tmp (g, the group column, plays no part).
frame_mean(t, g, cols) ==
    [c \in {cols[j] : j \in 1..Len(cols)} |-> MeanOfRows(t, c, Rows(t))]

RECURSIVE SortAscending(_)
SortAscending(S) ==
    IF S = {} THEN <<>>
    ELSE LET m == CHOOSE x \in S : \A y \in S : ~FloatLess(y, x)
         IN  <<m>> \o SortAscending(S \ {m})

RECURSIVE FirstAppearance(_, _, _)
FirstAppearance(t, g, i) ==
    IF i > Len(t) THEN <<>>
    ELSE LET rest == FirstAppearance(t, g, i + 1)
             k == t[i][g]
         IN  IF ~IsFin(k) THEN rest
             ELSE <<k>> \o SelectSeq(rest, LAMBDA x : x # k)

\* Mutant: groupby(sort=False), groups in order of first appearance.
groupby_keys_unsorted(t, g) == FirstAppearance(t, g, 1)

\* Mutant: groupby(dropna=False), the NaN keys form a last group.
groupby_keys_keepna(t, g) ==
    SortAscending({t[i][g] : i \in {j \in Rows(t) : IsFin(t[j][g])}})
        \o (IF \E i \in Rows(t) : ~IsFin(t[i][g]) THEN <<NaN>> ELSE <<>>)

\* tmp.groupby(group_col): the distinct non-NaN keys, ascending (sort=True,
\* dropna=True are the defaults).
groupby_keys(t, g) ==
    SortAscending({t[i][g] : i \in {j \in Rows(t) : IsFin(t[j][g])}})

\* The rows of the group of key k (NaN never equals a key, itself included;
\* the keepna mutant's NaN group takes the NaN rows).
GroupRows(t, g, k) ==
    IF IsFin(k) THEN {i \in Rows(t) : t[i][g] = k}
    ELSE {i \in Rows(t) : ~IsFin(t[i][g])}

\* [value_cols]: the selected columns, in the order the caller gave.
select_columns(cols) == cols

\* grp = tmp.groupby(group_col)[value_cols].mean(numeric_only=True):
\* one row per key, one mean per selected column.
groupby_mean(t, g, cols) ==
    LET keys == groupby_keys(t, g)
        sel == select_columns(cols)
    IN  [index |-> keys,
         columns |-> sel,
         values |-> [r \in 1..Len(keys) |->
                       [j \in 1..Len(sel) |->
                          MeanOfRows(t, sel[j], GroupRows(t, g, keys[r]))]]]

\* Mutant: the group means returned undivided.
divide_skipped(m, base) == m

\* Mutant: a missing ratio filled with 0.
divide_fillna(m, base) ==
    [m EXCEPT !.values =
        [r \in 1..Len(m.index) |->
           [j \in 1..Len(m.columns) |->
              LET q == FloatDiv(m.values[r][j], base[m.columns[j]])
              IN  IF q.k = "nan" THEN Fin(0, 1) ELSE q]]]

\* m.divide(baseline, axis=1): every column divided by the baseline of the
\* same label.
divide(m, base) ==
    [m EXCEPT !.values =
        [r \in 1..Len(m.index) |->
           [j \in 1..Len(m.columns) |->
              FloatDiv(m.values[r][j], base[m.columns[j]])]]]

\* .reset_index(): the group key becomes the first column.
reset_index(q, g) ==
    [k |-> "table",
     columns |-> <<g>> \o q.columns,
     rows |-> [r \in 1..Len(q.index) |-> <<q.index[r]>> \o q.values[r]]]

RelRaised == [k |-> "raised", columns |-> <<>>, rows |-> <<>>]

RelNoCall == [k |-> "nocall", columns |-> <<>>, rows |-> <<>>]

NoGroups == [index |-> <<>>, columns |-> <<>>, values |-> <<>>]

AnyRaised(t, cols) ==
    \E i \in Rows(t) : \E j \in 1..Len(cols) : t[i][cols[j]] = Raised

\* tmp after the copy and the coercions of the group column and of every
\* value column.
coerced_copy(d, g, cols) == coerce_columns(copy_df(d), <<g>> \o cols)

\* Mutant: tmp = df, the same object: the coercions are written into df.
df_after_call_nocopy(d, tmp) == tmp

\* The caller's table after the call: tmp is a copy, so the assignments to
\* tmp's columns leave df as it was.
df_after_call(d, tmp) == d

\* The call: what it returns (ret), its locals baseline and grp, and the
\* caller's table after it (df).
build_relative_table(d, g, cols) ==
    LET tmp == coerced_copy(d, g, cols)
    IN  IF AnyRaised(tmp, <<g>> \o cols)
        THEN [ret |-> RelRaised, baseline |-> <<>>, grp |-> NoGroups, df |-> d]
        ELSE LET base == frame_mean(tmp, g, cols)
                 means == groupby_mean(tmp, g, cols)
             IN  [ret |-> reset_index(divide(means, base), g),
                  baseline |-> base,
                  grp |-> means,
                  df |-> df_after_call(d, tmp)]

---------------------------------------------------------------------------
(* Labels and actions: the module-level dicts, as functions *)

CLUSTER_NAMES ==
    (0 :> "Residencial social - inadimplência recorrente e consumo estável")
 @@ (1 :> "Residencial social - inadimplência moderada e histórico consolidado")
 @@ (2 :> "Residencial social - inadimplência recente e baixo consumo")
 @@ (3 :> "Residencial social - consumo elevado e inadimplência intermitente")
 @@ (4 :> "Perfil misto/comercial - baixa frequência e alto impacto")
 @@ (5 :> "Outlier crítico - comportamento altamente atípico")
 @@ (6 :> "Perfil operacional sensível - irregularidade e instabilidade")
 @@ (7 :> "Residencial social - inadimplência crônica de alto volume")

\* Mutant: a third territory has a name.
TERR_NAMES_three ==
    (0 :> "Território de alta pressão estrutural e vulnerabilidade")
 @@ (1 :> "Território mais consolidado e heterogêneo")
 @@ (2 :> "Território em transição")

TERR_NAMES ==
    (0 :> "Território de alta pressão estrutural e vulnerabilidade")
 @@ (1 :> "Território mais consolidado e heterogêneo")

\* The value of CLUSTER_ACTIONS when the module has been loaded.
CLUSTER_ACTIONS_literal ==
    (0 :> [descricao |-> "Consumo previsível e inadimplência recorrente; associado a pressão estrutural do território.",
           acoes |-> << "Programas permanentes de renegociação (não pontuais)",
                        "Parcelamentos longos com parcelas baixas e fixas",
                        "Campanhas territoriais por setor (mutirões/ação comunitária)",
                        "Integração com tarifa social e políticas públicas",
                        "Comunicação comunitária (associações, lideranças locais)" >>])
 @@ (1 :> [descricao |-> "Inadimplência moderada com histórico consolidado e comportamento relativamente previsível.",
           acoes |-> << "Renegociação individual padronizada (ofertas claras)",
                        "Alertas preventivos (WhatsApp/SMS) antes de acumular",
                        "Parcelamento automático ao atingir limite de valor",
                        "Incentivo a formas de pagamento recorrente (quando viável)" >>])
 @@ (2 :> [descricao |-> "Inadimplência recente e baixo consumo; alto potencial de reversão rápida.",
           acoes |-> << "Contato rápido após o primeiro débito",
                        "Acordos simples (1-3 parcelas) e comunicação objetiva",
                        "Mensagens educativas (evitar crescimento do débito)",
                        "Ações digitais de baixo custo e alta escala" >>])
 @@ (3 :> [descricao |-> "Consumo acima da média com inadimplência intermitente; sensível a variações econômicas.",
           acoes |-> << "Monitoramento preventivo por variação de consumo",
                        "Alertas quando consumo sai do padrão",
                        "Renegociação flexível (parcelas ajustáveis)",
                        "Educação para uso racional + prevenção de picos" >>])
 @@ (4 :> [descricao |-> "Perfil misto/comercial; poucos casos, mas alto impacto financeiro quando inadimplente.",
           acoes |-> << "Tratamento individualizado (caso a caso)",
                        "Acompanhamento próximo e negociação dedicada",
                        "Regras específicas de cobrança/regularização",
                        "Priorizar por impacto financeiro" >>])
 @@ (5 :> [descricao |-> "Outlier crítico: comportamento altamente atípico e raro; não deve orientar política geral.",
           acoes |-> << "Análise manual/individual",
                        "Tratamento fora do fluxo padrão",
                        "Checagem de dados e possíveis inconsistências",
                        "Ação técnica/jurídica quando aplicável" >>])
 @@ (6 :> [descricao |-> "Perfil operacional sensível: irregularidades e instabilidade; cobrança isolada tende a falhar.",
           acoes |-> << "Vistorias e regularização técnica direcionadas",
                        "Integração área técnica + comercial",
                        "Acordos condicionados à regularização física",
                        "Acompanhamento pós-regularização" >>])
 @@ (7 :> [descricao |-> "Inadimplência crônica de alto volume e grande concentração; núcleo duro do problema.",
           acoes |-> << "Programas contínuos de regularização",
                        "Renegociação estruturada (em massa e recorrente)",
                        "Ações territoriais integradas (por setor)",
                        "Revisão ativa de enquadramento tarifário",
                        "Parcerias com assistência social e estratégias comunitárias" >>])

---------------------------------------------------------------------------
(* compute_strategy *)

KeyError == "KeyError"

\* Mutant: TERR_NAMES[territorio_int], a KeyError for an unknown id.
terr_name_indexed(t) == IF t \in DOMAIN TERR_NAMES THEN TERR_NAMES[t] ELSE KeyError

\* terr_name = TERR_NAMES.get(territorio_int, f"Território {territorio_int}")
terr_name(t) ==
    IF t \in DOMAIN TERR_NAMES THEN TERR_NAMES[t]
    ELSE "Território " \o ToString(t)

\* The three-way branch on territorio_int: the directive, the tone and the
\* channels; tone and channels keep their initial "" and [] in the else arm.
territorial_branch(t) ==
    IF t = 0 THEN
        [diretriz_territorial |-> "Priorizar ações coletivas/territoriais, regularização em massa e integração socioassistencial.",
         tom_de_comunicacao |-> "Comunitário e empático; foco em regularização sustentável.",
         canais_sugeridos |-> <<"Mutirões por setor", "Pontos comunitários", "WhatsApp comunitário", "Ações em campo">>]
    ELSE IF t = 1 THEN
        [diretriz_territorial |-> "Priorizar ações individualizadas, cobrança segmentada e prevenção digital.",
         tom_de_comunicacao |-> "Objetivo e preventivo; foco em negociação rápida e conveniência.",
         canais_sugeridos |-> <<"WhatsApp/SMS", "Campanhas digitais", "Portal/app", "Atendimento remoto">>]
    ELSE
        [diretriz_territorial |-> "Diretriz territorial não definida (valor fora do padrão 0/1).",
         tom_de_comunicacao |-> "",
         canais_sugeridos |-> <<>>]

\* Mutant: the last two actions of the cluster (acoes[-2:]).
base_actions_last_two(table, c) ==
    IF c \in DOMAIN table
    THEN LET acoes == table[c].acoes
         IN  IF Len(acoes) >= 2 THEN SubSeq(acoes, Len(acoes) - 1, Len(acoes)) ELSE acoes
    ELSE <<>>

\* info = CLUSTER_ACTIONS.get(cluster_int); if info: acoes[:2] if
\* len(acoes) >= 2 else acoes; [] when the cluster is unknown.
base_actions(table, c) ==
    IF c \in DOMAIN table
    THEN LET acoes == table[c].acoes
         IN  IF Len(acoes) >= 2 THEN SubSeq(acoes, 1, 2) ELSE acoes
    ELSE <<>>

\* Mutant: base["acoes_reforcadas"] = acoes, without the slice.
base_is_table_list_unsliced(table, c) == c \in DOMAIN table

\* Whether base["acoes_reforcadas"] is the table's own list object (the
\* else arm of the slice), so that += on it writes into the table.
base_is_table_list(table, c) == c \in DOMAIN table /\ Len(table[c].acoes) < 2

\* Mutant: rule 1 without its territory condition.
rule1_any_territory(t, c) ==
    IF c \in {0, 7}
    THEN <<"Negociação coletiva por setor", "Programa contínuo (não pontual)">>
    ELSE <<>>

\* if cluster_int in (0, 7) and territorio_int == 0
rule1(t, c) ==
    IF c \in {0, 7} /\ t = 0
    THEN <<"Negociação coletiva por setor", "Programa contínuo (não pontual)">>
    ELSE <<>>

\* Mutant: rule 2 also for cluster 3.
rule2_cluster_2_or_3(t, c) ==
    IF c \in {2, 3} /\ t = 1
    THEN <<"Contato rápido (D+1/D+3)", "Oferta simples (1-3 parcelas)">>
    ELSE <<>>

\* Mutant: rule 2 without its territory condition.
rule2_any_territory(t, c) ==
    IF c = 2
    THEN <<"Contato rápido (D+1/D+3)", "Oferta simples (1-3 parcelas)">>
    ELSE <<>>

\* if cluster_int == 2 and territorio_int == 1
rule2(t, c) ==
    IF c = 2 /\ t = 1
    THEN <<"Contato rápido (D+1/D+3)", "Oferta simples (1-3 parcelas)">>
    ELSE <<>>

\* Mutant: rule 3 only for the known territories.
rule3_known_territory(t, c) ==
    IF c = 6 /\ t \in {0, 1}
    THEN <<"Acionar time técnico (vistoria/regularização) antes de cobrança intensiva">>
    ELSE <<>>

\* Mutant: rule 3 also for cluster 7.
rule3_cluster_6_or_7(t, c) ==
    IF c \in {6, 7}
    THEN <<"Acionar time técnico (vistoria/regularização) antes de cobrança intensiva">>
    ELSE <<>>

\* if cluster_int == 6
rule3(t, c) ==
    IF c = 6
    THEN <<"Acionar time técnico (vistoria/regularização) antes de cobrança intensiva">>
    ELSE <<>>

\* The list after the three += statements.
after_rules(table, t, c) ==
    base_actions(table, c) \o rule1(t, c) \o rule2(t, c) \o rule3(t, c)

RECURSIVE dedup_from(_, _)
dedup_from(xs, seen) ==
    IF xs = <<>> THEN <<>>
    ELSE IF Head(xs) \in seen THEN dedup_from(Tail(xs), seen)
    ELSE <<Head(xs)>> \o dedup_from(Tail(xs), seen \cup {Head(xs)})

RECURSIVE dedup_last_from(_)
dedup_last_from(xs) ==
    IF xs = <<>> THEN <<>>
    ELSE IF \E i \in 2..Len(xs) : xs[i] = Head(xs) THEN dedup_last_from(Tail(xs))
    ELSE <<Head(xs)>> \o dedup_last_from(Tail(xs))

\* Mutant: the last occurrence of each string kept instead of the first.
dedup_keep_last(xs) == dedup_last_from(xs)

\* seen = set(); [x for x in xs if not (x in seen or seen.add(x))]
dedup(xs) == dedup_from(xs, {})

\* Whether the list returned under "acoes_reforcadas" is the table's own list
\* object: never, the comprehension builds a new list.
returned_acoes_is_table_list(table, c) == FALSE

StratRaised ==
    [k |-> "raised", territorio |-> "", diretriz_territorial |-> "",
     acoes_reforcadas |-> <<>>, tom_de_comunicacao |-> "", canais_sugeridos |-> <<>>]

NoStrat ==
    [k |-> "nocall", territorio |-> "", diretriz_territorial |-> "",
     acoes_reforcadas |-> <<>>, tom_de_comunicacao |-> "", canais_sugeridos |-> <<>>]

\* The call on the table as it stands: what it returns (ret) and the table
\* after it (table).
compute_strategy(table, t, c) ==
    LET name == terr_name(t)
        branch == territorial_branch(t)
        acoes == after_rules(table, t, c)
    IN  IF name = KeyError
        THEN [ret |-> StratRaised, table |-> table]
        ELSE [ret |-> [k |-> "dict",
                       territorio |-> name,
                       diretriz_territorial |-> branch.diretriz_territorial,
                       acoes_reforcadas |-> dedup(acoes),
                       tom_de_comunicacao |-> branch.tom_de_comunicacao,
                       canais_sugeridos |-> branch.canais_sugeridos],
              table |-> IF base_is_table_list(table, c)
                        THEN [table EXCEPT ![c].acoes = acoes]
                        ELSE table]

---------------------------------------------------------------------------
(* The script of app02.py, one run after another: data source, validations,
   preparation, sidebar, KPIs and the page.

   A DataFrame of the script is a record [loaded, columns, rows]: its column
   labels (a set) and its rows as above; None is NoFrame.  A Python int is
   PyInt(n), None is None.  The option lists the script sorts are sets here:
   their order only decides the order on screen. *)

Frame(labels, rws) == [loaded |-> TRUE, columns |-> labels, rows |-> rws]

NoFrame == [loaded |-> FALSE, columns |-> {}, rows |-> <<>>]

PyInt(x) == [k |-> "int", n |-> x, d |-> 1]

None == [k |-> "none", n |-> 0, d |-> 1]

\* Mutant: in upload mode a workbook that was not uploaded is read from the
\* default file.
workbook_is_read_with_fallback(upload, ups, disk, name) ==
    IF upload THEN name \in ups \/ name \in disk ELSE name \in disk

\* Whether the workbook `name` is read: in upload mode from the upload and
\* from nowhere else, otherwise from the default file if it exists.
workbook_is_read(upload, ups, disk, name) ==
    IF upload THEN name \in ups ELSE name \in disk

required_clientes == <<"cluster", "cluster_territorial", "TEM_DEBITO", "CD_SETOR">>

required_setores == <<"CD_SETOR", "cluster_territorial">>

\* missing = [c for c in cols if c not in df.columns]; the run stops when
\* missing is not empty.
require_columns(d, cols) == SelectSeq(cols, LAMBDA c : c \notin d.columns)

\* int(float(x)): the float truncated toward zero.
Trunc(x) == IF x.n >= 0 THEN x.n \div x.d ELSE -((-x.n) \div x.d)

\* Mutant: no try/except, int(float("inf")) raises OverflowError.
to_int_safe_uncaught(x) ==
    CASE x.k \in {"nan", "null"} -> None
      [] x.k = "fin"            -> PyInt(Trunc(x))
      [] OTHER                  -> Raised

\* pd.isna(x) gives None; int(float(x)) of an infinity raises, which the
\* except clause turns into None.
to_int_safe(x) ==
    CASE x.k \in {"nan", "null"} -> None
      [] x.k = "fin"            -> PyInt(Trunc(x))
      [] OTHER                  -> None

RECURSIVE lstrip(_)
lstrip(t) == IF t # <<>> /\ Head(t) = " " THEN lstrip(Tail(t)) ELSE t

RECURSIVE rstrip(_)
rstrip(t) ==
    IF t # <<>> /\ t[Len(t)] = " " THEN rstrip(SubSeq(t, 1, Len(t) - 1)) ELSE t

strip(t) == rstrip(lstrip(t))

\* .astype(str).str.strip() of a cell of an object column: text is stripped,
\* a missing cell becomes the text "nan".
astype_str_strip(c) ==
    CASE c.k = "str"  -> Str(strip(c.s))
      [] c.k = "null" -> Str(<<"n", "a", "n">>)

\* frame[c] = frame[c].astype(str).str.strip()
strip_column(rws, c) ==
    [i \in 1..Len(rws) |-> [rws[i] EXCEPT ![c] = astype_str_strip(@)]]

DESCONHECIDO == Str(<<"D", "E", "S", "C", "O", "N", "H", "E", "C", "I", "D", "O">>)

RESIDENCIAL == Str(<<"R", "E", "S", "I", "D", "E", "N", "C", "I", "A", "L">>)

\* .replace("DESCONHECIDO", "RESIDENCIAL")
replace_desconhecido(c) == IF c = DESCONHECIDO THEN RESIDENCIAL ELSE c

\* .astype(str) of a float64 that holds a whole number, NaN or an infinity.
float_str(x) ==
    CASE x.k = "nan"  -> "nan"
      [] x.k = "inf"  -> "inf"
      [] x.k = "ninf" -> "-inf"
      [] (x.k = "fin" /\ x.d = 1) -> ToString(x.n) \o ".0"

\* ints.map(names).fillna(floats.astype(str)), cell by cell.
name_or_str(names, i, x) ==
    IF i.k = "int" /\ i.n \in DOMAIN names THEN names[i.n] ELSE float_str(x)

\* Lines 281-298 on df_clientes: the sector key as stripped text, the
\* property type DESCONHECIDO renamed, the three numeric columns coerced, and
\* the label columns added.
prepare_clientes(d) ==
    LET keyed == strip_column(d.rows, "CD_SETOR")
        typed == IF "TIPO_IMOVEL" \in d.columns
                 THEN [i \in 1..Len(keyed) |->
                         [keyed[i] EXCEPT !["TIPO_IMOVEL"] = replace_desconhecido(@)]]
                 ELSE keyed
        num == coerce_columns(typed, <<"cluster", "cluster_territorial", "TEM_DEBITO">>)
        ints == [i \in 1..Len(num) |->
                   num[i] @@ ("cluster_int" :> to_int_safe(num[i]["cluster"]))
                          @@ ("territorio_int" :> to_int_safe(num[i]["cluster_territorial"]))]
        named == [i \in 1..Len(ints) |->
                   ints[i] @@ ("cluster_nome" :>
                                 name_or_str(CLUSTER_NAMES, ints[i]["cluster_int"],
                                             ints[i]["cluster"]))
                           @@ ("territorio_nome" :>
                                 name_or_str(TERR_NAMES, ints[i]["territorio_int"],
                                             ints[i]["cluster_territorial"]))]
    IN  [raised |-> \E i \in 1..Len(ints) :
                        Raised \in {ints[i]["cluster_int"], ints[i]["territorio_int"]},
         frame |-> Frame(d.columns \cup {"cluster_int", "territorio_int",
                                         "cluster_nome", "territorio_nome"},
                         IF \E i \in 1..Len(ints) :
                               Raised \in {ints[i]["cluster_int"], ints[i]["territorio_int"]}
                         THEN ints ELSE named)]

\* Lines 282-302 on df_setores.
prepare_setores(d) ==
    LET keyed == strip_column(d.rows, "CD_SETOR")
        num == coerce_column(keyed, "cluster_territorial")
        ints == [i \in 1..Len(num) |->
                   num[i] @@ ("territorio_int" :> to_int_safe(num[i]["cluster_territorial"]))]
        named == [i \in 1..Len(ints) |->
                   ints[i] @@ ("territorio_nome" :>
                                 name_or_str(TERR_NAMES, ints[i]["territorio_int"],
                                             ints[i]["cluster_territorial"]))]
    IN  [raised |-> \E i \in 1..Len(ints) : ints[i]["territorio_int"] = Raised,
         frame |-> Frame(d.columns \cup {"territorio_int", "territorio_nome"},
                         IF \E i \in 1..Len(ints) : ints[i]["territorio_int"] = Raised
                         THEN ints ELSE named)]

Pages == {"Visão Geral", "Clientes", "Território", "Matriz Estratégica", "Metodologia"}

\* Mutant: .unique() without .dropna(), the missing value is an option.
options_keepna(rws, c) == {rws[i][c] : i \in 1..Len(rws)}

\* df[c].dropna().unique(): the distinct values of the column that are not
\* missing.
options(rws, c) ==
    {v \in {rws[i][c] : i \in 1..Len(rws)} : v.k \notin {"nan", "null"}}

\* The state of an optional multiselect: None when the column is absent.
NoSel == [active |-> FALSE, sel |-> {}]

Sel(S) == [active |-> TRUE, sel |-> S]

\* df_f: the rows whose territory and cluster are among the selected ones,
\* then, for each optional filter whose column exists, the rows whose value
\* is among the selected ones.
apply_filters(d, st, sc, sts, sti) ==
    LET base == SelectSeq(d.rows, LAMBDA r :
                    r["cluster_territorial"] \in st /\ r["cluster"] \in sc)
        tarifa == IF sts.active
                  THEN SelectSeq(base, LAMBDA r : r["ENQUADRA_TARIFA_SOCIAL"] \in sts.sel)
                  ELSE base
        tipo == IF sti.active
                THEN SelectSeq(tarifa, LAMBDA r : r["TIPO_IMOVEL"] \in sti.sel)
                ELSE tarifa
    IN  Frame(d.columns, tipo)

\* setores_filtrados = df_f["CD_SETOR"].dropna().unique().tolist()
setores_filtrados_of(f) == options(f.rows, "CD_SETOR")

\* df_setores_f = df_setores[df_setores["CD_SETOR"].isin(setores_filtrados)]
filter_setores(d, keep) ==
    Frame(d.columns, SelectSeq(d.rows, LAMBDA r : r["CD_SETOR"] \in keep))

\* x * 100 of a float64.
Times100(x) == IF IsFin(x) THEN Fin(x.n * 100, x.d) ELSE x

\* safe_mean(df, col): 0.0 when the column is absent or the frame is empty.
safe_mean(f, c) ==
    IF c \in f.columns /\ Len(f.rows) > 0
    THEN MeanOfRows(coerce_column(f.rows, c), c, Rows(f.rows))
    ELSE Fin(0, 1)

\* _v = pd.to_numeric(df_f["VALOR_TOTAL_ABERTO"], errors="coerce").fillna(0):
\* its sum and its mean over every row.
impacto(f) ==
    IF "VALOR_TOTAL_ABERTO" \in f.columns /\ Len(f.rows) > 0
    THEN LET v == coerce_column(f.rows, "VALOR_TOTAL_ABERTO")
             total == SumOver(v, "VALOR_TOTAL_ABERTO",
                              {i \in Rows(v) : IsFin(v[i]["VALOR_TOTAL_ABERTO"])})
         IN  [total |-> total, medio |-> FloatDiv(total, Fin(Len(v), 1))]
    ELSE [total |-> Fin(0, 1), medio |-> Fin(0, 1)]

NoKpis ==
    [total |-> 0, pct_inad |-> Fin(0, 1), impacto_total_f |-> Fin(0, 1),
     impacto_medio_f |-> Fin(0, 1), consumo12 |-> Fin(0, 1),
     consumo24 |-> Fin(0, 1), irreg_mean |-> Fin(0, 1)]

\* The seven KPIs of the filtered customers.
kpis_of(f) ==
    [total |-> Len(f.rows),
     pct_inad |-> IF Len(f.rows) # 0
                  THEN Times100(MeanOfRows(f.rows, "TEM_DEBITO", Rows(f.rows)))
                  ELSE Fin(0, 1),
     impacto_total_f |-> impacto(f).total,
     impacto_medio_f |-> impacto(f).medio,
     consumo12 |-> safe_mean(f, "MEDIA_CONSUMO_12_MESES"),
     consumo24 |-> safe_mean(f, "MEDIA_CONSUMO_24_MESES"),
     irreg_mean |-> safe_mean(f, "QTD_IRREGULARIDADES")]

ibge_cols_expected ==
    << "Acesso a esgoto", "Acesso a água", "Lixo coletado_moradores",
       "Alfabetização 15 a 19", "Alfabetização 20 a 24", "Alfabetização 25 a 29",
       "Alfabetização 30 a 34", "Alfabetização 35 a 39", "Alfabetização 40 a 44",
       "Alfabetização 45 a 49", "Alfabetização 50 a 54", "Alfabetização 55 a 59",
       "Alfabetização 60 a 64", "Alfabetização 65 a 69", "Alfabetização 70 a 80" >>

\* The sheet of Paraisópolis.xlsx: two census sectors, two of the expected
\* indicators and a column the script does not ask for.
IBGE_XLSX ==
    Frame({"CD_SETOR", "Acesso a esgoto", "Acesso a água", "NM_SETOR"},
          << ("CD_SETOR" :> Str(<<"A">>)) @@ ("Acesso a esgoto" :> Num(1))
               @@ ("Acesso a água" :> Num(2)) @@ ("NM_SETOR" :> Str(<<"a">>)),
             ("CD_SETOR" :> Str(<<"B", " ">>)) @@ ("Acesso a esgoto" :> Num(3))
               @@ ("Acesso a água" :> Num(2)) @@ ("NM_SETOR" :> Str(<<"b">>)) >>)

NoIbge == [df_ibge_sel |-> NoFrame, cols_ok |-> <<>>]

\* load_ibge_table(): (None, []) when the file is absent, has no CD_SETOR or
\* none of the expected columns; otherwise CD_SETOR (as stripped text) and
\* the expected columns it has, in the order of the expected list.
load_ibge_table(disk) ==
    IF "ibge" \notin disk THEN NoIbge
    ELSE IF "CD_SETOR" \notin IBGE_XLSX.columns THEN NoIbge
    ELSE LET cols_ok == SelectSeq(ibge_cols_expected,
                                  LAMBDA c : c \in IBGE_XLSX.columns)
             kept == {"CD_SETOR"} \cup {cols_ok[j] : j \in 1..Len(cols_ok)}
         IN  IF Len(cols_ok) = 0 THEN NoIbge
             ELSE [df_ibge_sel |->
                      Frame(kept,
                            strip_column([i \in Rows(IBGE_XLSX.rows) |->
                                          [c \in kept |-> IBGE_XLSX.rows[i][c]]], "CD_SETOR")),
                   cols_ok |-> cols_ok]

\* left.merge(right, on=key, how="left"): every left row in order, once per
\* right row of the same key, or once with NaN in the right columns.
RECURSIVE merge_left(_, _, _, _)
merge_left(l, r, key, rcols) ==
    IF l = <<>> THEN <<>>
    ELSE LET row == Head(l)
             matches == SelectSeq(r, LAMBDA x : x[key] = row[key])
             joined == IF matches = <<>>
                       THEN << row @@ [c \in rcols |-> NaN] >>
                       ELSE [j \in 1..Len(matches) |->
                               row @@ [c \in rcols |-> matches[j][c]]]
         IN  joined \o merge_left(Tail(l), r, key, rcols)

\* .dropna(subset=[c])
dropna_subset(rws, c) == SelectSeq(rws, LAMBDA r : r[c].k \notin {"nan", "null"})

\* Mutant: the territorial heatmap fed with the sectors of the filtered
\* customers.
heatmap_terr_sectors_filtered(all, filtered) == filtered

\* df_st = df_setores.copy(): the territorial heatmap takes every sector.
heatmap_terr_sectors(all, filtered) == all

\* df_rel_terr as build_relative_table returns it.
heatmap_terr(all, filtered, ibge) ==
    LET df_st == coerce_column(
                    strip_column(heatmap_terr_sectors(all, filtered).rows, "CD_SETOR"),
                    "cluster_territorial")
        df_ibge_terr == merge_left(df_st, ibge.df_ibge_sel.rows, "CD_SETOR",
                                   ibge.df_ibge_sel.columns \ {"CD_SETOR"})
    IN  build_relative_table(dropna_subset(df_ibge_terr, "cluster_territorial"),
                             "cluster_territorial", ibge.cols_ok).ret

\* df_cl_f = df_f.copy(): the customer heatmap takes the filtered customers.
\* df_rel_cli as build_relative_table returns it.
heatmap_cli(f, ibge) ==
    LET df_cl_f == coerce_column(
                      strip_column(f.rows, "CD_SETOR"), "cluster")
        df_ibge_cli == merge_left(df_cl_f, ibge.df_ibge_sel.rows, "CD_SETOR",
                                  ibge.df_ibge_sel.columns \ {"CD_SETOR"})
    IN  build_relative_table(dropna_subset(df_ibge_cli, "cluster"),
                             "cluster", ibge.cols_ok).ret

\* [to_int_safe(c) for c in df_f[col].dropna().unique() if to_int_safe(c) is
\* not None]: the ints, and whether a conversion raised.
int_options(rws, c) ==
    [raised |-> \E v \in options(rws, c) : to_int_safe(v) = Raised,
     opts |-> {to_int_safe(v).n :
                 v \in {w \in options(rws, c) : to_int_safe(w).k = "int"}}]

---------------------------------------------------------------------------
(* The workbooks a run may find *)

Cliente(c, t, deb, s) ==
    [cluster |-> c, cluster_territorial |-> t, TEM_DEBITO |-> deb, CD_SETOR |-> s]

InfText == Str(<<"i", "n", "f">>)

\* Two customers; the territory of the second reads as an infinity.
ClientesPlain ==
    Frame({"cluster", "cluster_territorial", "TEM_DEBITO", "CD_SETOR"},
          << Cliente(Num(2), Num(1), Num(1), Str(<<"A">>)),
             Cliente(Num(7), InfText, Num(0), Str(<<"B", " ">>)) >>)

\* Three customers with the social-tariff column; one has no cluster, one no
\* sector, one no tariff flag.
ClientesTarifa ==
    Frame({"cluster", "cluster_territorial", "TEM_DEBITO", "CD_SETOR",
           "ENQUADRA_TARIFA_SOCIAL"},
          << Cliente(Null, Num(0), Num(1), Str(<<"A">>))
               @@ ("ENQUADRA_TARIFA_SOCIAL" :> Str(<<"S", "I", "M">>)),
             Cliente(Num(0), Num(0), Str(<<"x">>), Null)
               @@ ("ENQUADRA_TARIFA_SOCIAL" :> Str(<<"N", "A", "O">>)),
             Cliente(Str(<<"0">>), Num(0), Num(1), Str(<<"B">>))
               @@ ("ENQUADRA_TARIFA_SOCIAL" :> Null) >>)

\* Two customers with the property-type column.
ClientesTipo ==
    Frame({"cluster", "cluster_territorial", "TEM_DEBITO", "CD_SETOR", "TIPO_IMOVEL"},
          << Cliente(Num(5), Num(1), Num(1), Str(<<"B">>))
               @@ ("TIPO_IMOVEL" :> DESCONHECIDO),
             Cliente(Num(4), Num(1), Num(0), Str(<<"A">>))
               @@ ("TIPO_IMOVEL" :> RESIDENCIAL) >>)

\* The frame without the column c.
without_column(d, c) ==
    Frame(d.columns \ {c},
          [i \in Rows(d.rows) |-> [x \in d.columns \ {c} |-> d.rows[i][x]]])

ClientesBooks ==
    {ClientesPlain, ClientesTarifa, ClientesTipo}
        \cup {without_column(ClientesPlain, required_clientes[j]) : j \in 1..4}

SetoresPlain ==
    Frame({"CD_SETOR", "cluster_territorial"},
          << [CD_SETOR |-> Str(<<"A">>), cluster_territorial |-> Num(0)],
             [CD_SETOR |-> Str(<<"B">>), cluster_territorial |-> Num(1)] >>)

\* A padded key, a territory written as text and a sector without territory.
SetoresText ==
    Frame({"CD_SETOR", "cluster_territorial"},
          << [CD_SETOR |-> Str(<<" ", "A">>), cluster_territorial |-> Str(<<"1">>)],
             [CD_SETOR |-> Str(<<"B">>), cluster_territorial |-> Null] >>)

\* A sector without its key.
SetoresNoKey ==
    Frame({"CD_SETOR", "cluster_territorial"},
          << [CD_SETOR |-> Str(<<"A">>), cluster_territorial |-> Num(0)],
             [CD_SETOR |-> Null, cluster_territorial |-> Num(1)] >>)

SetoresBooks ==
    {SetoresPlain, SetoresText, SetoresNoKey}
        \cup {without_column(SetoresPlain, required_setores[j]) : j \in 1..2}

\* What a run leaves behind is cleared when the script starts again.
RunIdle ==
    /\ pca = "start"
    /\ error_shown = ""
    /\ reached = {}
    /\ df_clientes = NoFrame
    /\ df_setores = NoFrame
    /\ page = "Visão Geral"
    /\ sel_territorio = {}
    /\ sel_cluster = {}
    /\ sel_tarifa_social = NoSel
    /\ sel_tipo_imovel = NoSel
    /\ df_f = NoFrame
    /\ df_setores_f = NoFrame
    /\ kpis = NoKpis
    /\ df_rel_terr = RelNoCall
    /\ df_rel_cli = RelNoCall
    /\ cluster_opts = {}
    /\ terr_opts = {}
    /\ cluster_pick = None
    /\ terr_pick = None

AppIdle ==
    /\ on_disk = {}
    /\ xlsx_clientes = NoFrame
    /\ xlsx_setores = NoFrame
    /\ use_upload = FALSE
    /\ uploaded = {}
    /\ runs = 1
    /\ last_rel_terr = RelNoCall
    /\ RunIdle

---------------------------------------------------------------------------
(* The inputs of build_relative_table: tables of at most MaxRows rows over
   the columns g (group key), a and b (indicators), and the example table of
   the specification.  One indicator is requested over the wide cell domain,
   two indicators (in either order) over a narrower one. *)

GroupCells == {Null, Num(1), Num(2), Str(<<"1">>), Str(<<"x">>)}

ACells == {Null, Num(-1), Num(0), Num(1), Str(<<"1">>), Str(<<"x">>), Str(<<>>)}

RowsOneIndicator == [g : GroupCells, a : ACells, b : {Null}]

RowsTwoIndicators ==
    [g : {Null, Num(1), Num(2)}, a : {Null, Num(-1)}, b : {Null, Num(2)}]

TablesOver(R) == UNION {[1..n -> R] : n \in 0..MaxRows}

ExampleTable ==
    << [g |-> Num(1), a |-> Num(10), b |-> Null],
       [g |-> Num(1), a |-> Num(20), b |-> Null],
       [g |-> Num(2), a |-> Num(30), b |-> Null] >>

RelIdle ==
    /\ df = <<>>
    /\ group_col = "g"
    /\ value_cols = <<"a">>
    /\ rel = RelNoCall
    /\ baseline = <<>>
    /\ grp = NoGroups
    /\ pc = "start"
    /\ rel_again = RelNoCall

StratIdle ==
    /\ CLUSTER_ACTIONS = CLUSTER_ACTIONS_literal
    /\ territorio_int = 0
    /\ cluster_int = 0
    /\ strat = NoStrat
    /\ pcs = "start"
    /\ calls = 0
    /\ caller_appends = 0

DedupIdle ==
    /\ dedup_in = <<>>
    /\ dedup_out = <<>>
    /\ pcd = "start"

InitRel ==
    /\ \/ /\ df \in TablesOver(RowsOneIndicator) \cup {ExampleTable}
          /\ value_cols = <<"a">>
       \/ /\ df \in TablesOver(RowsTwoIndicators)
          /\ value_cols \in {<<"a", "b">>, <<"b", "a">>}
    /\ group_col = "g"
    /\ rel = RelNoCall
    /\ baseline = <<>>
    /\ grp = NoGroups
    /\ pc = "start"
    /\ rel_again = RelNoCall
    /\ StratIdle
    /\ DedupIdle
    /\ AppIdle

\* rel = build_relative_table(df, group_col, value_cols)
CallBuildRelativeTable ==
    /\ pc = "start"
    /\ LET r == build_relative_table(df, group_col, value_cols)
       IN  /\ rel' = r.ret
           /\ baseline' = r.baseline
           /\ grp' = r.grp
           /\ df' = r.df
    /\ pc' = "done"
    /\ UNCHANGED <<group_col, value_cols, rel_again>>
    /\ UNCHANGED <<stratVars, dedupVars, appVars>>

NextRel == CallBuildRelativeTable

SpecRel == InitRel /\ [][NextRel]_vars

\* rel_again = build_relative_table(df, group_col, value_cols), a second
\* call on the table the first call left.
CallBuildRelativeTableAgain ==
    /\ pc = "done"
    /\ LET r == build_relative_table(df, group_col, value_cols)
       IN  /\ rel_again' = r.ret
           /\ baseline' = r.baseline
           /\ grp' = r.grp
           /\ df' = r.df
    /\ pc' = "again"
    /\ UNCHANGED <<group_col, value_cols, rel>>
    /\ UNCHANGED <<stratVars, dedupVars, appVars>>

NextRelAgain == CallBuildRelativeTable \/ CallBuildRelativeTableAgain

\* Two calls of build_relative_table in a row, with the same arguments.
SpecRelAgain == InitRel /\ [][NextRelAgain]_vars

TerritorioArgs == (-1..MaxTerritorio) \cup {99}

ClusterArgs == (-1..MaxCluster) \cup {99}

InitStrat ==
    /\ RelIdle
    /\ DedupIdle
    /\ CLUSTER_ACTIONS = CLUSTER_ACTIONS_literal
    /\ territorio_int \in TerritorioArgs
    /\ cluster_int \in ClusterArgs
    /\ strat = NoStrat
    /\ pcs = "start"
    /\ calls = 0
    /\ caller_appends = 0
    /\ AppIdle

\* strat = compute_strategy(territorio_int, cluster_int)
CallComputeStrategy ==
    /\ pcs = "start"
    /\ LET r == compute_strategy(CLUSTER_ACTIONS, territorio_int, cluster_int)
       IN  /\ strat' = r.ret
           /\ CLUSTER_ACTIONS' = r.table
    /\ pcs' = "done"
    /\ calls' = calls + 1
    /\ UNCHANGED <<territorio_int, cluster_int, caller_appends>>
    /\ UNCHANGED <<relVars, dedupVars, appVars>>

NextStrat == CallComputeStrategy

SpecStrat == InitStrat /\ [][NextStrat]_vars

\* The caller appends a string to a list of the descriptor it got:
\* strat["acoes_reforcadas"].append(...) or strat["canais_sugeridos"].append(...).
\* The channel lists are list displays evaluated in the call, never a table's.
CallerAppends(field) ==
    /\ pcs = "done"
    /\ strat.k = "dict"
    /\ caller_appends < MaxCallerAppends
    /\ strat' = [strat EXCEPT ![field] = Append(@, "Ação do chamador")]
    /\ CLUSTER_ACTIONS' =
          IF /\ field = "acoes_reforcadas"
             /\ returned_acoes_is_table_list(CLUSTER_ACTIONS, cluster_int)
          THEN [CLUSTER_ACTIONS EXCEPT ![cluster_int].acoes = strat'.acoes_reforcadas]
          ELSE CLUSTER_ACTIONS
    /\ caller_appends' = caller_appends + 1
    /\ UNCHANGED <<territorio_int, cluster_int, pcs, calls>>
    /\ UNCHANGED <<relVars, dedupVars, appVars>>

\* The next call is set up, with other arguments.
NextCall(t, c) ==
    /\ pcs = "done"
    /\ calls < MaxCalls
    /\ territorio_int' = t
    /\ cluster_int' = c
    /\ strat' = NoStrat
    /\ pcs' = "start"
    /\ caller_appends' = 0
    /\ UNCHANGED <<CLUSTER_ACTIONS, calls>>
    /\ UNCHANGED <<relVars, dedupVars, appVars>>

NextStratCalls ==
    \/ CallComputeStrategy
    \/ \E field \in {"acoes_reforcadas", "canais_sugeridos"} : CallerAppends(field)
    \/ \E t \in TerritorioArgs : \E c \in ClusterArgs : NextCall(t, c)

\* Any sequence of calls of compute_strategy, the caller appending to the
\* lists it gets back.
SpecStratCalls == InitStrat /\ [][NextStratCalls]_vars

\* Strings a list of reinforced actions is made of: a base action of
\* cluster 0 and the two strings rule 1 appends.
ActionStrings ==
    { "Programas permanentes de renegociação (não pontuais)",
      "Negociação coletiva por setor",
      "Programa contínuo (não pontual)" }

ActionLists == UNION {[1..n -> ActionStrings] : n \in 0..MaxActions}

InitDedup ==
    /\ RelIdle
    /\ StratIdle
    /\ dedup_in \in ActionLists
    /\ dedup_out = <<>>
    /\ pcd = "start"
    /\ AppIdle

\* base["acoes_reforcadas"] = [x for x in base["acoes_reforcadas"] if not
\* (x in seen or seen.add(x))]
ApplyDedup ==
    /\ pcd = "start"
    /\ dedup_out' = dedup(dedup_in)
    /\ pcd' = "done"
    /\ UNCHANGED dedup_in
    /\ UNCHANGED <<relVars, stratVars, appVars>>

NextDedup == ApplyDedup

SpecDedup == InitDedup /\ [][NextDedup]_vars

---------------------------------------------------------------------------
(* The runs of the script.  The first run of a session has every widget at
   its default: no upload mode, the page "Visão Geral", everything selected.
   Every later run follows a change of the widgets on screen; the workbooks
   stay what they are. *)

InitApp ==
    /\ on_disk \in SUBSET {"clientes", "setores", "ibge"}
    /\ xlsx_clientes \in ClientesBooks
    /\ xlsx_setores \in SetoresBooks
    /\ use_upload = FALSE
    /\ uploaded = {}
    /\ runs = 1
    /\ last_rel_terr = RelNoCall
    /\ RunIdle
    /\ RelIdle
    /\ StratIdle
    /\ DedupIdle

\* Lines 246-272: the two frames are read; the run stops with an error when
\* either is None.
DataSource ==
    /\ pca = "start"
    /\ LET c == IF workbook_is_read(use_upload, uploaded, on_disk, "clientes")
                THEN xlsx_clientes ELSE NoFrame
           s == IF workbook_is_read(use_upload, uploaded, on_disk, "setores")
                THEN xlsx_setores ELSE NoFrame
       IN  /\ df_clientes' = c
           /\ df_setores' = s
           /\ IF ~c.loaded \/ ~s.loaded
              THEN /\ error_shown' = "Não encontrei os arquivos Excel."
                   /\ pca' = "stopped"
              ELSE /\ error_shown' = error_shown
                   /\ pca' = "loaded"
    /\ UNCHANGED <<reached, sidebarVars, resultVars, envVars>>
    /\ UNCHANGED <<relVars, stratVars, dedupVars>>

\* Lines 277-278: require_columns on the customers, then on the sectors.
Validations ==
    /\ pca = "loaded"
    /\ IF require_columns(df_clientes, required_clientes) # <<>>
       THEN /\ error_shown' = "Arquivo dashboard_clientes.xlsx está sem colunas obrigatórias"
            /\ pca' = "stopped"
       ELSE IF require_columns(df_setores, required_setores) # <<>>
       THEN /\ error_shown' = "Arquivo dashboard_setores.xlsx está sem colunas obrigatórias"
            /\ pca' = "stopped"
       ELSE /\ error_shown' = error_shown
            /\ pca' = "validated"
    /\ UNCHANGED <<reached, df_clientes, df_setores, sidebarVars, resultVars, envVars>>
    /\ UNCHANGED <<relVars, stratVars, dedupVars>>

\* Lines 281-302: keys, numeric columns and labels of both frames.
Prepare ==
    /\ pca = "validated"
    /\ df_clientes' = prepare_clientes(df_clientes).frame
    /\ df_setores' = prepare_setores(df_setores).frame
    /\ pca' = IF prepare_clientes(df_clientes).raised \/ prepare_setores(df_setores).raised
              THEN "raised" ELSE "prepared"
    /\ UNCHANGED <<error_shown, reached, sidebarVars, resultVars, envVars>>
    /\ UNCHANGED <<relVars, stratVars, dedupVars>>

\* What an optional multiselect can hold.
optional_selections(d, c) ==
    IF c \in d.columns THEN {Sel(S) : S \in SUBSET options(d.rows, c)} ELSE {NoSel}

\* default=op: everything selected.
optional_default(d, c) ==
    IF c \in d.columns THEN Sel(options(d.rows, c)) ELSE NoSel

\* Lines 308-346: the page, the selections of the multiselects, df_f and
\* df_setores_f.
Sidebar ==
    /\ pca = "prepared"
    /\ \E p \in Pages :
       \E st \in SUBSET options(df_clientes.rows, "cluster_territorial") :
       \E sc \in SUBSET options(df_clientes.rows, "cluster") :
       \E sts \in optional_selections(df_clientes, "ENQUADRA_TARIFA_SOCIAL") :
       \E sti \in optional_selections(df_clientes, "TIPO_IMOVEL") :
          /\ runs = 1 =>
                /\ p = "Visão Geral"
                /\ st = options(df_clientes.rows, "cluster_territorial")
                /\ sc = options(df_clientes.rows, "cluster")
                /\ sts = optional_default(df_clientes, "ENQUADRA_TARIFA_SOCIAL")
                /\ sti = optional_default(df_clientes, "TIPO_IMOVEL")
          /\ page' = p
          /\ sel_territorio' = st
          /\ sel_cluster' = sc
          /\ sel_tarifa_social' = sts
          /\ sel_tipo_imovel' = sti
          /\ df_f' = apply_filters(df_clientes, st, sc, sts, sti)
          /\ df_setores_f' =
                filter_setores(df_setores,
                    setores_filtrados_of(apply_filters(df_clientes, st, sc, sts, sti)))
    /\ reached' = reached \cup {"filters"}
    /\ pca' = "filtered"
    /\ UNCHANGED <<error_shown, df_clientes, df_setores, resultVars, envVars>>
    /\ UNCHANGED <<relVars, stratVars, dedupVars>>

\* Lines 351-380: the KPIs of the filtered customers.
KPIs ==
    /\ pca = "filtered"
    /\ kpis' = kpis_of(df_f)
    /\ reached' = reached \cup {"kpis"}
    /\ pca' = "kpis"
    /\ UNCHANGED <<error_shown, df_clientes, df_setores, sidebarVars, envVars>>
    /\ UNCHANGED <<df_rel_terr, df_rel_cli, cluster_opts, terr_opts, cluster_pick, terr_pick>>
    /\ UNCHANGED <<relVars, stratVars, dedupVars>>

\* Lines 386-545: the page "Visão Geral"; with the IBGE table loaded, the
\* territorial heatmap and then the customer heatmap.
PageVisaoGeral ==
    /\ pca = "kpis"
    /\ page = "Visão Geral"
    /\ LET ibge == load_ibge_table(on_disk)
       IN  IF ~ibge.df_ibge_sel.loaded \/ Len(ibge.cols_ok) = 0
           THEN /\ reached' = reached \cup {"page"}
                /\ UNCHANGED <<df_rel_terr, df_rel_cli>>
           ELSE /\ reached' = reached \cup {"page", "build_relative_table"}
                /\ df_rel_terr' = heatmap_terr(df_setores, df_setores_f, ibge)
                /\ df_rel_cli' = heatmap_cli(df_f, ibge)
    /\ pca' = "end"
    /\ UNCHANGED <<error_shown, df_clientes, df_setores, sidebarVars, envVars>>
    /\ UNCHANGED <<kpis, cluster_opts, terr_opts, cluster_pick, terr_pick>>
    /\ UNCHANGED <<relVars, stratVars, dedupVars>>

\* Lines 550-745 and 876-930: the pages "Clientes", "Território" and
\* "Metodologia" draw charts, tables and text.
PageCharts(p) ==
    /\ pca = "kpis"
    /\ page = p
    /\ reached' = reached \cup {"page"}
    /\ pca' = "end"
    /\ UNCHANGED <<error_shown, df_clientes, df_setores, sidebarVars, resultVars, envVars>>
    /\ UNCHANGED <<relVars, stratVars, dedupVars>>

\* Lines 746-875: the page "Matriz Estratégica"; the two option lists, the
\* two picks and, with both picks made, the call of compute_strategy.
PageMatrizEstrategica ==
    /\ pca = "kpis"
    /\ page = "Matriz Estratégica"
    /\ LET co == int_options(df_f.rows, "cluster")
           to == int_options(df_f.rows, "cluster_territorial")
       IN  IF co.raised \/ to.raised
           THEN /\ pca' = "raised"
                /\ reached' = reached \cup {"page"}
                /\ UNCHANGED <<cluster_opts, terr_opts, cluster_pick, terr_pick>>
                /\ UNCHANGED stratVars
           ELSE \E cp \in IF co.opts = {} THEN {None} ELSE {PyInt(n) : n \in co.opts} :
                \E tp \in IF to.opts = {} THEN {None} ELSE {PyInt(n) : n \in to.opts} :
                   /\ cluster_opts' = co.opts
                   /\ terr_opts' = to.opts
                   /\ cluster_pick' = cp
                   /\ terr_pick' = tp
                   /\ pca' = "end"
                   /\ IF cp # None /\ tp # None
                      THEN /\ territorio_int' = tp.n
                           /\ cluster_int' = cp.n
                           /\ strat' = compute_strategy(CLUSTER_ACTIONS, tp.n, cp.n).ret
                           /\ CLUSTER_ACTIONS' =
                                 compute_strategy(CLUSTER_ACTIONS, tp.n, cp.n).table
                           /\ reached' = reached \cup {"page", "compute_strategy"}
                           /\ UNCHANGED <<pcs, calls, caller_appends>>
                      ELSE /\ reached' = reached \cup {"page"}
                           /\ UNCHANGED stratVars
    /\ UNCHANGED <<error_shown, df_clientes, df_setores, sidebarVars, envVars>>
    /\ UNCHANGED <<kpis, df_rel_terr, df_rel_cli>>
    /\ UNCHANGED <<relVars, dedupVars>>

\* The user changes a widget and the script runs again from the top.  The
\* upload widgets are on screen only in upload mode.
Rerun ==
    /\ pca \in {"end", "stopped", "raised"}
    /\ runs < MaxRuns
    /\ runs' = runs + 1
    /\ use_upload' \in BOOLEAN
    /\ uploaded' \in IF use_upload /\ use_upload'
                     THEN SUBSET {"clientes", "setores"} ELSE {{}}
    /\ last_rel_terr' = IF df_rel_terr # RelNoCall THEN df_rel_terr ELSE last_rel_terr
    /\ pca' = "start"
    /\ error_shown' = ""
    /\ reached' = {}
    /\ df_clientes' = NoFrame
    /\ df_setores' = NoFrame
    /\ page' = "Visão Geral"
    /\ sel_territorio' = {}
    /\ sel_cluster' = {}
    /\ sel_tarifa_social' = NoSel
    /\ sel_tipo_imovel' = NoSel
    /\ df_f' = NoFrame
    /\ df_setores_f' = NoFrame
    /\ kpis' = NoKpis
    /\ df_rel_terr' = RelNoCall
    /\ df_rel_cli' = RelNoCall
    /\ cluster_opts' = {}
    /\ terr_opts' = {}
    /\ cluster_pick' = None
    /\ terr_pick' = None
    /\ territorio_int' = 0
    /\ cluster_int' = 0
    /\ strat' = NoStrat
    /\ UNCHANGED <<CLUSTER_ACTIONS, pcs, calls, caller_appends>>
    /\ UNCHANGED <<on_disk, xlsx_clientes, xlsx_setores>>
    /\ UNCHANGED <<relVars, dedupVars>>

NextApp ==
    \/ DataSource
    \/ Validations
    \/ Prepare
    \/ Sidebar
    \/ KPIs
    \/ PageVisaoGeral
    \/ \E p \in {"Clientes", "Território", "Metodologia"} : PageCharts(p)
    \/ PageMatrizEstrategica
    \/ Rerun

\* A session of the dashboard: the script run up to MaxRuns times.
SpecApp == InitApp /\ [][NextApp]_vars

---------------------------------------------------------------------------
(* What the claims about build_relative_table speak of, read off the input
   table df itself (never off tmp, baseline or grp). *)

Done == pc = "done"

Returned == Done /\ rel.k = "table"

\* A cell that holds a number: a number, or text that reads as one.
HasNumber(c) == c.k = "num" \/ (c.k = "str" /\ IsNumericText(c.s))

NumberOf(c) == IF c.k = "num" THEN c.n ELSE ParseText(c.s)

ValueColSet == {value_cols[j] : j \in 1..Len(value_cols)}

\* The rows of df whose cell of column c holds a number, among the rows I.
Present(t, c, I) == {i \in I : HasNumber(t[i][c])}

RECURSIVE InputSum(_, _, _)
InputSum(t, c, I) ==
    IF I = {} THEN 0
    ELSE LET i == CHOOSE j \in I : TRUE
         IN  NumberOf(t[i][c]) + InputSum(t, c, I \ {i})

\* v is the mean of the numbers of column c over the rows I (NaN if none).
IsMeanOf(v, t, c, I) ==
    LET P == Present(t, c, I)
    IN  IF P = {} THEN v = NaN
        ELSE IsFin(v) /\ v.n * Cardinality(P) = v.d * InputSum(t, c, P)

\* v is (mean of c over the rows I) / (mean of c over all rows).
IsRatioOf(v, t, c, I) ==
    LET P == Present(t, c, I)
        A == Present(t, c, Rows(t))
    IN  /\ IsFin(v)
        /\ v.n * Cardinality(P) * InputSum(t, c, A)
             = v.d * InputSum(t, c, P) * Cardinality(A)

\* The distinct numbers found in the group column, and the rows of each.
InputKeys == {NumberOf(df[i][group_col]) : i \in Present(df, group_col, Rows(df))}

KeyRows(k) ==
    {i \in Present(df, group_col, Rows(df)) : NumberOf(df[i][group_col]) = k}

NullKeyRows == Rows(df) \ Present(df, group_col, Rows(df))

RelRows == 1..Len(rel.rows)

\* The cell of the returned table at row r, column named c.
RelCell(r, c) ==
    rel.rows[r][CHOOSE j \in 1..Len(rel.columns) : rel.columns[j] = c]

GrpCell(r, c) ==
    grp.values[r][CHOOSE j \in 1..Len(grp.columns) : grp.columns[j] = c]

BaselineIsZero(c) ==
    /\ Present(df, c, Rows(df)) # {}
    /\ InputSum(df, c, Present(df, c, Rows(df))) = 0

BaselineIsNonZero(c) ==
    /\ Present(df, c, Rows(df)) # {}
    /\ InputSum(df, c, Present(df, c, Rows(df))) # 0

---------------------------------------------------------------------------
(* C1: for every indicator whose baseline (mean of its non-null values over
   all rows) is zero, the returned ratio is null in every group - never an
   infinity, never 0 - and the call does not raise.  Stated as claimed; the
   code divides by the zero baseline and returns +/-inf where the group mean
   is not zero. *)
C1_ZeroBaselineRatiosNull ==
    Done =>
        /\ rel.k = "table"
        /\ \A c \in ValueColSet :
              BaselineIsZero(c) => \A r \in RelRows : RelCell(r, c) = NaN

(* C2: a row whose group key is null or fails coercion forms no group and
   enters no group's mean, yet its indicator values enter the baseline. *)
C2_NullKeyRowsOnlyInBaseline ==
    Returned =>
        /\ \A r \in RelRows : IsFin(rel.rows[r][1])
        /\ Len(rel.rows) = Cardinality(InputKeys)
        /\ \A r \in 1..Len(grp.index) : \A c \in ValueColSet :
              /\ IsFin(grp.index[r])
              /\ IsMeanOf(GrpCell(r, c), df, c, KeyRows(grp.index[r].n))
        /\ \A c \in ValueColSet : IsMeanOf(baseline[c], df, c, Rows(df))

\* A null-key row and a text-key row hold numbers that move the baseline
\* away from the mean of the only group.
C2_Witness ==
    /\ Returned
    /\ Len(df) = 2
    /\ df[1].g = Null /\ df[1].a = Num(1)
    /\ df[2].g = Num(1) /\ df[2].a = Num(-1)
    /\ baseline["a"] = Fin(0, 1)
    /\ Len(rel.rows) = 1

\* df with the group key of row i replaced by cell x.
Regrouped(t, i, x) == [t EXCEPT ![i] = [t[i] EXCEPT ![group_col] = x]]

\* The baseline a call on table t, grouped by g, computes.
BaselineOfCall(t, g, cols) == frame_mean(coerced_copy(t, g, cols), g, cols)

(* C3: the baseline of every indicator is the mean of its non-null values
   over the full input and does not depend on the grouping: changing the
   group key of any row, or grouping by another column, leaves it as is. *)
C3_BaselineIndependentOfGrouping ==
    Returned =>
        /\ \A c \in ValueColSet : IsMeanOf(baseline[c], df, c, Rows(df))
        /\ \A i \in Rows(df) : \A x \in GroupCells :
              BaselineOfCall(Regrouped(df, i, x), group_col, value_cols) = baseline
        /\ "b" \notin ValueColSet =>
              BaselineOfCall(df, "b", value_cols) = baseline

\* Rows outside every group hold indicator values, so a per-group or
\* grouped-rows-only baseline would differ.
C3_Witness ==
    /\ Returned
    /\ \E i \in NullKeyRows : HasNumber(df[i].a) /\ NumberOf(df[i].a) = 1
    /\ \E k \in InputKeys : \E i \in KeyRows(k) :
          HasNumber(df[i].a) /\ NumberOf(df[i].a) = -1
    /\ "a" \in ValueColSet

(* C4: a group (non-null key) whose every row is null for an indicator has a
   null ratio for it, and the group's row is still in the returned table. *)
C4_AllNullGroupKeepsRow ==
    Returned =>
        \A k \in InputKeys : \A c \in ValueColSet :
            Present(df, c, KeyRows(k)) = {} =>
                \E r \in RelRows :
                    /\ rel.rows[r][1] = Fin(k, 1)
                    /\ RelCell(r, c) = NaN

\* Group 2 has no value of a while group 1 has one and the baseline is not 0.
C4_Witness ==
    /\ Returned
    /\ "a" \in ValueColSet
    /\ InputKeys = {1, 2}
    /\ Present(df, "a", KeyRows(2)) = {}
    /\ Present(df, "a", KeyRows(1)) # {}
    /\ BaselineIsNonZero("a")
    /\ Len(rel.rows) = 2

(* C5: for a group with a non-null value of indicator i, and a defined,
   non-zero baseline, the ratio is exactly (mean of i within the group) /
   (mean of i over all rows); the example rows (1,10), (1,20), (2,30) give
   baseline 20 and ratios 0.75 and 1.5. *)
C5_RatioIsGroupMeanOverBaseline ==
    Returned =>
        /\ \A k \in InputKeys : \A c \in ValueColSet :
              (Present(df, c, KeyRows(k)) # {} /\ BaselineIsNonZero(c)) =>
                  \E r \in RelRows :
                      /\ rel.rows[r][1] = Fin(k, 1)
                      /\ IsRatioOf(RelCell(r, c), df, c, KeyRows(k))
        /\ df = ExampleTable =>
              /\ baseline["a"] = Fin(20, 1)
              /\ rel.rows = << <<Fin(1, 1), Fin(3, 4)>>, <<Fin(2, 1), Fin(3, 2)>> >>

C5_Witness ==
    /\ Returned
    /\ df = ExampleTable
    /\ Len(rel.rows) = 2

(* C6: a non-numeric or empty cell of the group column or of an indicator
   column is coerced to null without raising and counts in neither the
   numerator nor the denominator of any mean; an indicator with no numeric
   cell at all has a null ratio in every group, and the call still returns. *)
C6_NonNumericCellsCoercedToNull ==
    Done =>
        /\ rel.k = "table"
        /\ \A c \in ValueColSet :
              /\ IsMeanOf(baseline[c], df, c, Rows(df))
              /\ \A r \in 1..Len(grp.index) :
                    IsMeanOf(GrpCell(r, c), df, c, KeyRows(grp.index[r].n))
              /\ Present(df, c, Rows(df)) = {} =>
                    /\ baseline[c] = NaN
                    /\ \A r \in RelRows : RelCell(r, c) = NaN
        /\ \A i \in Rows(df) :
              (df[i][group_col].k = "str" /\ ~IsNumericText(df[i][group_col].s))
                  => i \in NullKeyRows

\* Text that is no number in the group column and in the indicator column,
\* the empty text included, and no numeric cell in the indicator at all.
C6_Witness ==
    /\ Returned
    /\ Len(df) = 2
    /\ df[1].g = Str(<<"x">>) /\ df[1].a = Str(<<>>)
    /\ df[2].g = Num(1) /\ df[2].a = Str(<<"x">>)
    /\ rel.rows = << <<Fin(1, 1), NaN>> >>

(* C7: the returned table lists each distinct non-null group key exactly
   once, in ascending order, with the indicator columns in the order of
   value_cols. *)
C7_GroupsAscendingColumnsInCallerOrder ==
    Returned =>
        /\ rel.columns = <<group_col>> \o value_cols
        /\ {rel.rows[r][1] : r \in RelRows} = {Fin(k, 1) : k \in InputKeys}
        /\ \A r, q \in RelRows :
              r < q => /\ IsFin(rel.rows[r][1]) /\ IsFin(rel.rows[q][1])
                       /\ rel.rows[r][1].n < rel.rows[q][1].n
        /\ \A r \in RelRows : Len(rel.rows[r]) = 1 + Len(value_cols)

\* Key 2 comes before key 1 in the input, key 1 twice (once as text), and
\* the caller asks for b before a.
C7_Witness ==
    /\ Returned
    /\ value_cols = <<"b", "a">>
    /\ Len(df) = 2
    /\ df[1].g = Num(2) /\ df[2].g = Num(1)
    /\ rel.columns = <<"g", "b", "a">>
    /\ Len(rel.rows) = 2

\* The same with the key 1 once as a number and once as text.
C7_WitnessTextKey ==
    /\ Returned
    /\ Len(df) = 2
    /\ df[1].g = Str(<<"1">>) /\ df[2].g = Num(1)
    /\ Len(rel.rows) = 1

(* C15: build_relative_table has no side effect on its input - a call
   leaves the caller's table with the same rows and the same cells, the
   text and other originals of the group and indicator columns included -
   so a second call with the same arguments returns an equal table. *)
C15_InputUntouched ==
    [][/\ df' = df
       /\ pc' = "again" => rel_again' = rel]_vars

\* Two calls on a table whose key and indicator cells are text.
C15_Witness ==
    /\ pc = "again"
    /\ Len(df) = 2
    /\ df[1].g = Str(<<"1">>) /\ df[1].a = Str(<<"1">>)
    /\ df[2].g = Str(<<"x">>) /\ df[2].a = Num(-1)
    /\ rel_again.k = "table"
    /\ Len(rel_again.rows) = 1

---------------------------------------------------------------------------
(* What the claims about compute_strategy speak of *)

DoneStrat == pcs = "done"

ReturnedStrat == DoneStrat /\ strat.k = "dict"

Elements(xs) == {xs[i] : i \in 1..Len(xs)}

NoDuplicates(xs) == \A i, j \in 1..Len(xs) : xs[i] = xs[j] => i = j

Rule1Strings == {"Negociação coletiva por setor", "Programa contínuo (não pontual)"}

Rule2Strings == {"Contato rápido (D+1/D+3)", "Oferta simples (1-3 parcelas)"}

Rule3Strings ==
    {"Acionar time técnico (vistoria/regularização) antes de cobrança intensiva"}

Min(x, y) == IF x < y THEN x ELSE y

(* C8: compute_strategy returns a descriptor for every pair of integers and
   never raises.  For territorio 0 or 1 the name is the TERR_NAMES entry and
   directive, tone and channels are non-empty; for any other territorio the
   name is a fallback label that embeds the id, the directive is the "not
   defined" message, the tone is "" and the channel list is empty. *)
C8_ComputeStrategyTotal ==
    DoneStrat =>
        /\ strat.k = "dict"
        /\ territorio_int \in {0, 1} =>
              /\ strat.territorio = TERR_NAMES[territorio_int]
              /\ strat.diretriz_territorial # ""
              /\ strat.tom_de_comunicacao # ""
              /\ strat.canais_sugeridos # <<>>
        /\ territorio_int \notin {0, 1} =>
              /\ strat.territorio = "Território " \o ToString(territorio_int)
              /\ territorio_int = 99 => strat.territorio = "Território 99"
              /\ territorio_int = -1 => strat.territorio = "Território -1"
              /\ strat.diretriz_territorial
                    = "Diretriz territorial não definida (valor fora do padrão 0/1)."
              /\ strat.tom_de_comunicacao = ""
              /\ strat.canais_sugeridos = <<>>

\* An unknown territory with a known cluster.
C8_Witness ==
    /\ ReturnedStrat
    /\ territorio_int = 99
    /\ cluster_int = 6
    /\ strat.territorio = "Território 99"
    /\ strat.canais_sugeridos = <<>>

(* C9: for a known cluster the reinforced actions begin with the first two
   actions of the cluster's list, in table order (all of them if it has
   fewer than two), and whatever follows them was appended by an override
   rule; for an unknown cluster the list is empty and nothing is raised. *)
C9_BaseActionsFirstTwoThenAppends ==
    DoneStrat =>
        /\ strat.k = "dict"
        /\ cluster_int \in DOMAIN CLUSTER_ACTIONS_literal =>
              LET acoes == CLUSTER_ACTIONS_literal[cluster_int].acoes
                  n == Min(2, Len(acoes))
              IN  /\ Len(strat.acoes_reforcadas) >= n
                  /\ SubSeq(strat.acoes_reforcadas, 1, n) = SubSeq(acoes, 1, n)
                  /\ \A i \in (n + 1)..Len(strat.acoes_reforcadas) :
                        strat.acoes_reforcadas[i]
                            \in Rule1Strings \cup Rule2Strings \cup Rule3Strings
        /\ cluster_int \notin DOMAIN CLUSTER_ACTIONS_literal =>
              strat.acoes_reforcadas = <<>>

\* A known cluster on which a rule fires.
C9_Witness ==
    /\ ReturnedStrat
    /\ cluster_int = 7
    /\ territorio_int = 0
    /\ Len(strat.acoes_reforcadas) = 4
    /\ strat.acoes_reforcadas[1] = "Programas contínuos de regularização"

\* An unknown cluster.
C9_WitnessUnknownCluster ==
    /\ ReturnedStrat
    /\ cluster_int = 99
    /\ strat.acoes_reforcadas = <<>>

(* C10: rule 1 - the reinforced actions hold both "Negociação coletiva por
   setor" and "Programa contínuo (não pontual)" exactly when cluster is 0
   or 7 and territorio is 0; compute_strategy(0, 0) returns the first two
   actions of cluster 0 followed by these two, without duplicates. *)
C10_Rule1 ==
    ReturnedStrat =>
        /\ (Rule1Strings \subseteq Elements(strat.acoes_reforcadas))
              <=> (cluster_int \in {0, 7} /\ territorio_int = 0)
        /\ (territorio_int = 0 /\ cluster_int = 0) =>
              /\ strat.acoes_reforcadas =
                    << "Programas permanentes de renegociação (não pontuais)",
                       "Parcelamentos longos com parcelas baixas e fixas",
                       "Negociação coletiva por setor",
                       "Programa contínuo (não pontual)" >>
              /\ NoDuplicates(strat.acoes_reforcadas)

C10_Witness ==
    /\ ReturnedStrat
    /\ territorio_int = 0
    /\ cluster_int = 0
    /\ Rule1Strings \subseteq Elements(strat.acoes_reforcadas)

(* C11: rule 2 - the reinforced actions hold "Contato rápido (D+1/D+3)" and
   "Oferta simples (1-3 parcelas)" exactly when cluster is 2 and territorio
   is 1; compute_strategy(1, 2) holds both and compute_strategy(0, 2) holds
   neither. *)
C11_Rule2 ==
    ReturnedStrat =>
        /\ (Rule2Strings \subseteq Elements(strat.acoes_reforcadas))
              <=> (cluster_int = 2 /\ territorio_int = 1)
        /\ (territorio_int = 1 /\ cluster_int = 2) =>
              strat.acoes_reforcadas =
                  << "Contato rápido após o primeiro débito",
                     "Acordos simples (1-3 parcelas) e comunicação objetiva",
                     "Contato rápido (D+1/D+3)",
                     "Oferta simples (1-3 parcelas)" >>
        /\ (territorio_int = 0 /\ cluster_int = 2) =>
              Rule2Strings \cap Elements(strat.acoes_reforcadas) = {}

C11_Witness ==
    /\ ReturnedStrat
    /\ territorio_int = 1
    /\ cluster_int = 2
    /\ Rule2Strings \subseteq Elements(strat.acoes_reforcadas)

\* The other half: cluster 2 in territory 0.
C11_WitnessTerritory0 ==
    /\ ReturnedStrat
    /\ territorio_int = 0
    /\ cluster_int = 2
    /\ Len(strat.acoes_reforcadas) = 2

(* C12 as claimed: rule 3 does not look at the territory - the reinforced
   actions hold the technical-team action exactly when cluster is 6 - and
   compute_strategy(99, 6) appends it, raises nothing and produces the
   directive "Diretriz territorial não definida". *)
C12_Rule3DirectiveAsClaimed ==
    DoneStrat =>
        /\ strat.k = "dict"
        /\ (Rule3Strings \subseteq Elements(strat.acoes_reforcadas))
              <=> (cluster_int = 6)
        /\ (territorio_int = 99 /\ cluster_int = 6) =>
              strat.diretriz_territorial = "Diretriz territorial não definida"

(* C12 as amended: the same, the directive of compute_strategy(99, 6) being
   the full text "Diretriz territorial não definida (valor fora do padrão
   0/1).", and the technical-team action coming last, after the first two
   actions of cluster 6. *)
C12_Rule3TerritoryIndependent ==
    DoneStrat =>
        /\ strat.k = "dict"
        /\ (Rule3Strings \subseteq Elements(strat.acoes_reforcadas))
              <=> (cluster_int = 6)
        /\ (territorio_int = 99 /\ cluster_int = 6) =>
              /\ strat.diretriz_territorial
                    = "Diretriz territorial não definida (valor fora do padrão 0/1)."
              /\ strat.acoes_reforcadas =
                    << "Vistorias e regularização técnica direcionadas",
                       "Integração área técnica + comercial",
                       "Acionar time técnico (vistoria/regularização) antes de cobrança intensiva" >>

C12_Witness ==
    /\ ReturnedStrat
    /\ territorio_int = 99
    /\ cluster_int = 6
    /\ Len(strat.acoes_reforcadas) = 3

\* Which override rules left their strings in the returned list.
RulesSeen ==
    {r \in {1, 2, 3} :
        Elements(strat.acoes_reforcadas)
            \cap (CASE r = 1 -> Rule1Strings [] r = 2 -> Rule2Strings
                    [] r = 3 -> Rule3Strings) # {}}

\* The first two actions of the cluster in the table as loaded.
FirstTwoOfCluster(c) ==
    IF c \in DOMAIN CLUSTER_ACTIONS_literal
    THEN SubSeq(CLUSTER_ACTIONS_literal[c].acoes, 1, 2)
    ELSE <<>>

(* C20: for every pair (territorio, cluster) at most one override rule
   fires and no rule string equals one of the cluster's first two actions,
   so the deduplication removes nothing: the returned list is the base
   actions followed by the fired rule's strings, of length 0, 2, 3 or 4. *)
C20_AtMostOneRuleNoOverlap ==
    ReturnedStrat =>
        /\ Cardinality(RulesSeen) <= 1
        /\ Elements(FirstTwoOfCluster(cluster_int))
              \cap (Rule1Strings \cup Rule2Strings \cup Rule3Strings) = {}
        /\ strat.acoes_reforcadas =
              FirstTwoOfCluster(cluster_int)
                \o (IF cluster_int \in {0, 7} /\ territorio_int = 0
                    THEN <<"Negociação coletiva por setor",
                           "Programa contínuo (não pontual)">>
                    ELSE IF cluster_int = 2 /\ territorio_int = 1
                    THEN <<"Contato rápido (D+1/D+3)",
                           "Oferta simples (1-3 parcelas)">>
                    ELSE IF cluster_int = 6
                    THEN <<"Acionar time técnico (vistoria/regularização) antes de cobrança intensiva">>
                    ELSE <<>>)
        /\ Len(strat.acoes_reforcadas) \in {0, 2, 3, 4}
        /\ NoDuplicates(strat.acoes_reforcadas)

\* Cluster 7 in territory 0: rule 1 alone fires.
C20_Witness ==
    /\ ReturnedStrat
    /\ cluster_int = 7
    /\ territorio_int = 0
    /\ RulesSeen = {1}
    /\ Len(strat.acoes_reforcadas) = 4

---------------------------------------------------------------------------
(* The deduplication step on its own *)

\* The position of the first occurrence of x in xs.
FirstIndex(xs, x) == CHOOSE i \in 1..Len(xs) : xs[i] = x /\ \A j \in 1..(i - 1) : xs[j] # x

(* C13: the deduplication is order-stable - the final list holds each
   distinct string of the list exactly once, and the strings stand in the
   order of their first occurrences (nothing is sorted or moved). *)
C13_DedupOrderStable ==
    pcd = "done" =>
        /\ NoDuplicates(dedup_out)
        /\ Elements(dedup_out) = Elements(dedup_in)
        /\ \A i, j \in 1..Len(dedup_out) :
              i < j => FirstIndex(dedup_in, dedup_out[i]) < FirstIndex(dedup_in, dedup_out[j])

\* A rule string equal to a base action, with a later unique string.
C13_Witness ==
    /\ pcd = "done"
    /\ dedup_in = << "Programas permanentes de renegociação (não pontuais)",
                     "Negociação coletiva por setor",
                     "Programas permanentes de renegociação (não pontuais)",
                     "Programa contínuo (não pontual)" >>
    /\ dedup_out = << "Programas permanentes de renegociação (não pontuais)",
                      "Negociação coletiva por setor",
                      "Programa contínuo (não pontual)" >>

---------------------------------------------------------------------------
(* C14: the reference tables are never mutated - after any sequence of
   compute_strategy calls, the caller appending to the lists of the
   descriptors it gets, every entry of CLUSTER_ACTIONS (its keys, its
   descriptions, its action lists) is as it was when the module was loaded:
   the += of the override rules never writes into a list of the table. *)
C14_ReferenceTablesNeverMutated ==
    /\ DOMAIN CLUSTER_ACTIONS = DOMAIN CLUSTER_ACTIONS_literal
    /\ \A c \in DOMAIN CLUSTER_ACTIONS_literal :
          /\ CLUSTER_ACTIONS[c].acoes = CLUSTER_ACTIONS_literal[c].acoes
          /\ CLUSTER_ACTIONS[c].descricao = CLUSTER_ACTIONS_literal[c].descricao

\* A second call on which a rule fired, and the caller appended to the list.
C14_Witness ==
    /\ pcs = "done"
    /\ calls = 2
    /\ cluster_int = 6
    /\ caller_appends = 1
    /\ Len(strat.acoes_reforcadas) = 4
    /\ strat.acoes_reforcadas[4] = "Ação do chamador"

(* C16: the static reference data is well-formed - CLUSTER_NAMES and
   CLUSTER_ACTIONS have the same keys, the eight integers 0..7; every
   entry of CLUSTER_ACTIONS has a description and a list of three to five
   actions, no action twice; TERR_NAMES has the keys 0 and 1 and no
   other.  It stays so through every call of compute_strategy and every
   append of a caller to what a call returned. *)
C16_StaticDataWellFormed ==
    /\ DOMAIN CLUSTER_NAMES = 0..7
    /\ DOMAIN CLUSTER_ACTIONS = DOMAIN CLUSTER_NAMES
    /\ \A c \in DOMAIN CLUSTER_NAMES : CLUSTER_NAMES[c] # ""
    /\ \A c \in DOMAIN CLUSTER_ACTIONS :
          /\ DOMAIN CLUSTER_ACTIONS[c] = {"descricao", "acoes"}
          /\ CLUSTER_ACTIONS[c].descricao # ""
          /\ Len(CLUSTER_ACTIONS[c].acoes) \in 3..5
          /\ NoDuplicates(CLUSTER_ACTIONS[c].acoes)
          /\ \A i \in 1..Len(CLUSTER_ACTIONS[c].acoes) :
                CLUSTER_ACTIONS[c].acoes[i] # ""
    /\ DOMAIN TERR_NAMES = {0, 1}
    /\ \A t \in DOMAIN TERR_NAMES : TERR_NAMES[t] # ""

\* A call for cluster 7, the entry of five actions, in a territory with a
\* name, and the caller has appended to what it returned.
C16_Witness ==
    /\ pcs = "done"
    /\ cluster_int = 7
    /\ territorio_int \in DOMAIN TERR_NAMES
    /\ caller_appends = 1
    /\ Len(CLUSTER_ACTIONS[7].acoes) = 5
    /\ Len(CLUSTER_ACTIONS[1].acoes) = 4
    /\ strat.territorio = TERR_NAMES[territorio_int]

---------------------------------------------------------------------------
(* What the claims about the script speak of, read off the workbooks and the
   widgets *)

\* Whether this run can read the workbook `name`.
Readable(name) == IF use_upload THEN name \in uploaded ELSE name \in on_disk

NotLoaded == ~Readable("clientes") \/ ~Readable("setores")

LacksRequired ==
    \/ \E c \in {"cluster", "cluster_territorial", "TEM_DEBITO", "CD_SETOR"} :
          c \notin xlsx_clientes.columns
    \/ \E c \in {"CD_SETOR", "cluster_territorial"} : c \notin xlsx_setores.columns

NothingComputed ==
    /\ reached = {}
    /\ df_f = NoFrame
    /\ df_setores_f = NoFrame
    /\ kpis = NoKpis
    /\ df_rel_terr = RelNoCall
    /\ df_rel_cli = RelNoCall
    /\ strat = NoStrat

(* C17: validation comes before any core computation - in a run where a
   frame is not loaded (in upload mode, where an upload is missing, whatever
   default files exist) or where a required column is absent, the run goes
   no further than the validations, it stops with an error message shown,
   and no filter, KPI, page, build_relative_table call or compute_strategy
   call is reached. *)
C17_ValidationBeforeCore ==
    (NotLoaded \/ LacksRequired) =>
        /\ pca \in {"start", "loaded", "stopped"}
        /\ NotLoaded => pca # "loaded"
        /\ pca = "stopped" => error_shown # ""
        /\ NothingComputed

\* Upload mode, one upload missing, both default files on disk: stopped.
C17_Witness ==
    /\ pca = "stopped"
    /\ use_upload
    /\ uploaded = {"clientes"}
    /\ on_disk = {"clientes", "setores", "ibge"}
    /\ ~LacksRequired
    /\ error_shown = "Não encontrei os arquivos Excel."

\* Both frames loaded, the customers without TEM_DEBITO: stopped.
C17_WitnessMissingColumn ==
    /\ pca = "stopped"
    /\ ~NotLoaded
    /\ "TEM_DEBITO" \notin xlsx_clientes.columns
    /\ error_shown = "Arquivo dashboard_clientes.xlsx está sem colunas obrigatórias"

\* The ints that the values of column c of the filtered customers give: the
\* finite ones, truncated.
IntsOfFiltered(c) ==
    {Trunc(df_f.rows[i][c]) : i \in {j \in Rows(df_f.rows) : IsFin(df_f.rows[j][c])}}

MatrizShown == pca = "end" /\ page = "Matriz Estratégica"

(* C18: compute_strategy is only invoked with two ints that to_int_safe gave
   for a cluster and a territory of the filtered customers - no conversion
   raises, a missing or infinite value gives no option, a pick is None
   exactly when its option list is empty, and the call is made exactly when
   both picks are made, with the picks as arguments. *)
C18_StrategyOnlyOnParsedInts ==
    /\ pca # "raised"
    /\ "compute_strategy" \in reached => MatrizShown
    /\ "compute_strategy" \notin reached => strat = NoStrat
    /\ MatrizShown =>
          /\ cluster_opts = IntsOfFiltered("cluster")
          /\ terr_opts = IntsOfFiltered("cluster_territorial")
          /\ (cluster_pick = None) <=> (cluster_opts = {})
          /\ (terr_pick = None) <=> (terr_opts = {})
          /\ cluster_pick # None => cluster_pick.k = "int" /\ cluster_pick.n \in cluster_opts
          /\ terr_pick # None => terr_pick.k = "int" /\ terr_pick.n \in terr_opts
          /\ ("compute_strategy" \in reached) <=> (cluster_pick # None /\ terr_pick # None)
          /\ "compute_strategy" \in reached =>
                /\ territorio_int = terr_pick.n
                /\ cluster_int = cluster_pick.n
                /\ strat.k = "dict"

\* The filtered customers hold an infinite territory, which gives no option;
\* the call is made for territory 1 and cluster 7.
C18_Witness ==
    /\ MatrizShown
    /\ \E i \in Rows(df_f.rows) : df_f.rows[i]["cluster_territorial"] = PosInf
    /\ terr_opts = {1}
    /\ cluster_opts = {2, 7}
    /\ "compute_strategy" \in reached
    /\ territorio_int = 1
    /\ cluster_int = 7

\* Only the customer of the infinite territory is left: no territory option,
\* no pick, no call.
C18_WitnessNoCall ==
    /\ MatrizShown
    /\ Len(df_f.rows) = 1
    /\ df_f.rows[1]["cluster_territorial"] = PosInf
    /\ terr_opts = {}
    /\ terr_pick = None
    /\ cluster_pick = PyInt(7)
    /\ strat = NoStrat

\* Whether the sidebar selections keep the customer row r.
Selected(r) ==
    /\ r["cluster_territorial"] \in sel_territorio
    /\ r["cluster"] \in sel_cluster
    /\ sel_tarifa_social.active => r["ENQUADRA_TARIFA_SOCIAL"] \in sel_tarifa_social.sel
    /\ sel_tipo_imovel.active => r["TIPO_IMOVEL"] \in sel_tipo_imovel.sel

\* The rows t joined with the IBGE indicators of their sector, those without
\* a group key left out.
WithIbge(t, g) ==
    dropna_subset(merge_left(t, load_ibge_table(on_disk).df_ibge_sel.rows, "CD_SETOR",
                             load_ibge_table(on_disk).df_ibge_sel.columns \ {"CD_SETOR"}),
                  g)

\* The relative table of a population.
RelativeTableOf(t, g) ==
    build_relative_table(WithIbge(t, g), g, load_ibge_table(on_disk).cols_ok).ret

HeatmapsDrawn == pca = "end" /\ page = "Visão Geral" /\ "ibge" \in on_disk

(* C19: the two heatmaps take different populations - the customer heatmap
   is the relative table of the customers the sidebar selections keep, the
   territorial heatmap is the relative table of every sector, whatever is
   selected, and so it is the same table as in any earlier run of the
   session. *)
C19_HeatmapPopulations ==
    [][HeatmapsDrawn' /\ pca = "kpis" =>
          /\ df_rel_cli' = RelativeTableOf(SelectSeq(df_clientes.rows, Selected), "cluster")
          /\ df_rel_terr' = RelativeTableOf(df_setores.rows, "cluster_territorial")
          /\ last_rel_terr # RelNoCall => df_rel_terr' = last_rel_terr]_vars

\* A later run with one cluster deselected: the customer heatmap is not the
\* one of all the customers, the territorial heatmap is the one of before.
C19_Witness ==
    /\ HeatmapsDrawn
    /\ runs > 1
    /\ sel_cluster # options(df_clientes.rows, "cluster")
    /\ Len(df_rel_cli.rows) = 1
    /\ df_rel_cli # RelativeTableOf(df_clientes.rows, "cluster")
    /\ Len(RelativeTableOf(df_clientes.rows, "cluster").rows) = 2
    /\ Len(df_rel_terr.rows) = 2
    /\ df_rel_terr = last_rel_terr

---------------------------------------------------------------------------
\* The four fields of a descriptor that the territory decides.
TerritorialFields(s) ==
    <<s.territorio, s.diretriz_territorial, s.tom_de_comunicacao, s.canais_sugeridos>>

\* What a call for territory t and cluster c returns, on the table as it is.
DescriptorOf(t, c) == compute_strategy(CLUSTER_ACTIONS, t, c).ret

(* C21: the territory name, the directive, the tone and the channels of a
   descriptor depend on the territory only - the descriptor returned for
   (territorio_int, cluster_int) has the four fields of the descriptor of
   any other cluster in the same territory - and for a cluster outside
   {0, 2, 7} the reinforced actions are those of the same cluster in any
   other territory. *)
C21_TerritoryFieldsIgnoreCluster ==
    ReturnedStrat =>
        /\ \A c2 \in ClusterArgs :
              TerritorialFields(DescriptorOf(territorio_int, c2)) = TerritorialFields(strat)
        /\ cluster_int \notin {0, 2, 7} =>
              \A t2 \in TerritorioArgs :
                 DescriptorOf(t2, cluster_int).acoes_reforcadas = strat.acoes_reforcadas

\* Cluster 6 in a territory without a name: its three actions, and the
\* fields of that territory.
C21_Witness ==
    /\ ReturnedStrat
    /\ cluster_int = 6
    /\ territorio_int = 99
    /\ Len(strat.acoes_reforcadas) = 3
    /\ strat.territorio = "Território 99"
    /\ strat.canais_sugeridos = <<>>

\* Cluster 0 is excepted for a reason: four actions in territory 0, two in
\* territory 1.
C21_WitnessCluster0Differs ==
    /\ ReturnedStrat
    /\ cluster_int = 0
    /\ territorio_int = 0
    /\ Len(strat.acoes_reforcadas) = 4
    /\ Len(DescriptorOf(1, 0).acoes_reforcadas) = 2

---------------------------------------------------------------------------
Missing(v) == v.k \in {"nan", "null"}

FiltersApplied == "filters" \in reached

\* The sector keys that occur in the filtered customers.
KeysOfFiltered == {df_f.rows[i]["CD_SETOR"] : i \in Rows(df_f.rows)}

(* C22: whatever is selected, every row of df_f is a customer row whose
   cluster and territory are not missing and are among the selected values;
   a customer whose cluster or territory is missing is in no row of df_f
   and not counted in the KPIs, the default selection included; and
   df_setores_f holds exactly the sector rows whose CD_SETOR occurs in a
   row of df_f, in the order of df_setores. *)
C22_FilteredTables ==
    FiltersApplied =>
        /\ Len(df_f.rows) <= Len(df_clientes.rows)
        /\ \A i \in Rows(df_f.rows) :
              /\ \E j \in Rows(df_clientes.rows) : df_clientes.rows[j] = df_f.rows[i]
              /\ ~Missing(df_f.rows[i]["cluster"])
              /\ ~Missing(df_f.rows[i]["cluster_territorial"])
              /\ df_f.rows[i]["cluster"] \in sel_cluster
              /\ df_f.rows[i]["cluster_territorial"] \in sel_territorio
        /\ \A j \in Rows(xlsx_clientes.rows) :
              (xlsx_clientes.rows[j]["cluster"] = Null
                 \/ xlsx_clientes.rows[j]["cluster_territorial"] = Null) =>
                 \A i \in Rows(df_f.rows) : df_f.rows[i] # df_clientes.rows[j]
        /\ "kpis" \in reached =>
              /\ kpis.total = Len(df_f.rows)
              /\ kpis.total <= Cardinality({j \in Rows(xlsx_clientes.rows) :
                                   /\ xlsx_clientes.rows[j]["cluster"] # Null
                                   /\ xlsx_clientes.rows[j]["cluster_territorial"] # Null})
        /\ df_setores_f.rows =
              SelectSeq(df_setores.rows, LAMBDA s : s["CD_SETOR"] \in KeysOfFiltered)

\* The first run, everything selected: of three customers the one without a
\* cluster is left out (and the one without a tariff flag), one is counted,
\* and one sector of two is kept.
C22_Witness ==
    /\ pca = "end"
    /\ runs = 1
    /\ xlsx_clientes = ClientesTarifa
    /\ xlsx_setores = SetoresNoKey
    /\ sel_cluster = options(df_clientes.rows, "cluster")
    /\ sel_territorio = options(df_clientes.rows, "cluster_territorial")
    /\ Len(df_clientes.rows) = 3
    /\ Len(df_f.rows) = 1
    /\ kpis.total = 1
    /\ Len(df_setores_f.rows) = 1

\* A later run with cluster 2 alone selected: one customer, sector A only.
C22_WitnessOneCluster ==
    /\ FiltersApplied
    /\ xlsx_clientes = ClientesPlain
    /\ xlsx_setores = SetoresPlain
    /\ sel_cluster = {Fin(2, 1)}
    /\ Len(df_f.rows) = 1
    /\ Len(df_setores_f.rows) = 1
    /\ df_setores_f.rows[1]["CD_SETOR"] = Str(<<"A">>)

====
